---- MODULE Spec2Model ----
(***************************************************************************)
(* A model of the OAI-PMH server of scieloorg/oai-pmh: the resumption      *)
(* token family (oaipmh/entities.py), the request validator and verb       *)
(* dispatcher and the result pages (oaipmh/repository.py) and the sets     *)
(* registry (oaipmh/articlemeta.py).                                       *)
(*                                                                         *)
(* Python strings are sequences of one-character strings, so that          *)
(* splitting, joining, slicing, formatting, pattern matching and the       *)
(* lexicographic comparison of dates are computed as the code computes     *)
(* them.  Python's None is the value None below.                           *)
(***************************************************************************)
EXTENDS Integers, Sequences, FiniteSets, TLC

\* ------------------------------------------------------------------------
\* Strings
\* ------------------------------------------------------------------------

None == <<"None">>

Digits == <<"0", "1", "2", "3", "4", "5", "6", "7", "8", "9">>

\* The characters of the model in code point order.
CharOrder ==
    <<"(", ")", "-">> \o Digits \o <<":", "N", "T", "Z", "_">> \o
    <<"a", "b", "c", "d", "e", "f", "i", "j", "n", "o", "p", "r", "x">>

Ord(c) == CHOOSE i \in 1..Len(CharOrder) : CharOrder[i] = c

IsDigit(c) == \E i \in 1..10 : Digits[i] = c

DigitVal(c) == (CHOOSE i \in 1..10 : Digits[i] = c) - 1

\* \w of the re module, over the characters of the model
IsWordChar(c) == Ord(c) >= Ord("0") /\ c # ":"

\* truthiness of a str or None
Truthy(s) == s # None /\ s # <<>>

\* a or b
Or(a, b) == IF Truthy(a) THEN a ELSE b

\* s[i:j] with 0 <= i, restricted to the bounds of s
Slice(s, i, j) ==
    LET hi == IF j > Len(s) THEN Len(s) ELSE j
    IN  IF i >= hi THEN <<>> ELSE SubSeq(s, i + 1, hi)

\* str.index(c): the 0-based position of the first c, -1 when there is none
\* (where the code raises ValueError)
Index(s, c) ==
    IF \E i \in 1..Len(s) : s[i] = c
    THEN (CHOOSE i \in 1..Len(s) : s[i] = c /\ \A j \in 1..(i - 1) : s[j] # c) - 1
    ELSE -1

\* a < b and a <= b on str
RECURSIVE StrLess(_, _)
StrLess(a, b) ==
    IF b = <<>> THEN FALSE
    ELSE IF a = <<>> THEN TRUE
    ELSE IF a[1] = b[1] THEN StrLess(Tail(a), Tail(b))
    ELSE Ord(a[1]) < Ord(b[1])

StrLeq(a, b) == a = b \/ StrLess(a, b)

\* str.split(sep)
RECURSIVE Split(_, _)
Split(s, sep) ==
    LET i == Index(s, sep)
    IN  IF i = -1 THEN <<s>>
        ELSE <<Slice(s, 0, i)>> \o Split(Slice(s, i + 1, Len(s)), sep)

\* sep.join(parts)
RECURSIVE Join(_, _)
Join(parts, sep) ==
    IF parts = <<>> THEN <<>>
    ELSE IF Len(parts) = 1 THEN parts[1]
    ELSE parts[1] \o <<sep>> \o Join(Tail(parts), sep)

\* \d+
IsDigits(s) == Len(s) >= 1 /\ \A i \in 1..Len(s) : IsDigit(s[i])

\* \w+
IsWord(s) == Len(s) >= 1 /\ \A i \in 1..Len(s) : IsWordChar(s[i])

\* [\w-]+
IsWordOrDash(s) == Len(s) >= 1 /\ \A i \in 1..Len(s) : IsWordChar(s[i]) \/ s[i] = "-"

\* (\d{4})-(\d{2})-(\d{2})
IsDatePattern(s) ==
    /\ Len(s) = 10
    /\ \A i \in {1, 2, 3, 4, 6, 7, 9, 10} : IsDigit(s[i])
    /\ s[5] = "-"
    /\ s[8] = "-"

\* int(s) of a string of digits
RECURSIVE IntOf(_)
IntOf(s) ==
    IF s = <<>> THEN 0
    ELSE 10 * IntOf(SubSeq(s, 1, Len(s) - 1)) + DigitVal(s[Len(s)])

\* str(n) of a natural number
RECURSIVE StrOf(_)
StrOf(n) ==
    IF n < 10 THEN <<Digits[n + 1]>>
    ELSE StrOf(n \div 10) \o <<Digits[(n % 10) + 1]>>

\* str(n) padded with zeros to w digits, as strftime's %Y, %m and %d
RECURSIVE Pad(_, _)
Pad(s, w) == IF Len(s) >= w THEN s ELSE Pad(<<"0">> \o s, w)

\* ------------------------------------------------------------------------
\* Dates (oaipmh/utils.py and the datetime module)
\* ------------------------------------------------------------------------

IsLeap(y) == (y % 4 = 0 /\ y % 100 # 0) \/ y % 400 = 0

lastdayofmonth(year, month) ==
    IF month = 2 THEN (IF IsLeap(year) THEN 29 ELSE 28)
    ELSE IF month \in {4, 6, 9, 11} THEN 30
    ELSE 31

\* the value raised by a failed conversion
ValueError == [error |-> "ValueError"]

IsValidDate(y, m, d) ==
    /\ y \in 1..9999
    /\ m \in 1..12
    /\ d \in 1..lastdayofmonth(y, m)

\* utils.parse_date: the first of %Y-%m-%d, %Y-%m and %Y that matches
parse_date(datestamp) ==
    LET parts == Split(datestamp, "-")
        ok(p, w) == IsDigits(p) /\ Len(p) <= w
        y == IntOf(parts[1])
    IN  IF Len(parts) = 3 /\ ok(parts[1], 4) /\ Len(parts[1]) = 4
           /\ ok(parts[2], 2) /\ ok(parts[3], 2)
           /\ IsValidDate(y, IntOf(parts[2]), IntOf(parts[3]))
        THEN [y |-> y, m |-> IntOf(parts[2]), d |-> IntOf(parts[3])]
        ELSE IF Len(parts) = 2 /\ ok(parts[1], 4) /\ Len(parts[1]) = 4
                /\ ok(parts[2], 2) /\ IsValidDate(y, IntOf(parts[2]), 1)
        THEN [y |-> y, m |-> IntOf(parts[2]), d |-> 1]
        ELSE IF Len(parts) = 1 /\ ok(parts[1], 4) /\ Len(parts[1]) = 4
                /\ IsValidDate(y, 1, 1)
        THEN [y |-> y, m |-> 1, d |-> 1]
        ELSE ValueError

\* date + datetime.timedelta(days=1)
NextDay(dt) ==
    IF dt.d < lastdayofmonth(dt.y, dt.m) THEN [dt EXCEPT !.d = dt.d + 1]
    ELSE IF dt.m < 12 THEN [y |-> dt.y, m |-> dt.m + 1, d |-> 1]
    ELSE [y |-> dt.y + 1, m |-> 1, d |-> 1]

\* date.strftime('%Y-%m-%d')
strftime(dt) ==
    Pad(StrOf(dt.y), 4) \o <<"-">> \o Pad(StrOf(dt.m), 2) \o <<"-">> \o
    Pad(StrOf(dt.d), 2)

\* ------------------------------------------------------------------------
\* Exceptions (oaipmh/exceptions.py) and the other outcomes of a call
\* ------------------------------------------------------------------------

Raise(name) == [cls |-> "Error", error |-> name]

BadArgumentError == Raise("BadArgumentError")
BadResumptionTokenError == Raise("BadResumptionTokenError")
CannotDisseminateFormatError == Raise("CannotDisseminateFormatError")
IdDoesNotExistError == Raise("IdDoesNotExistError")
NoRecordsMatchError == Raise("NoRecordsMatchError")

\* what next() returns when there is no further page (Python's None)
NoToken == [cls |-> "None"]

IsError(r) == r.cls = "Error"

IsToken(r) == r.cls \in {"Chunked", "Plain"}

\* ------------------------------------------------------------------------
\* Resumption tokens (oaipmh/entities.py)
\* ------------------------------------------------------------------------

\* the verb names are single symbols of the model's strings
Identify == <<"Identify">>
GetRecord == <<"GetRecord">>
ListRecords == <<"ListRecords">>
ListIdentifiers == <<"ListIdentifiers">>
ListMetadataFormats == <<"ListMetadataFormats">>
ListSets == <<"ListSets">>

attrs == <<"set", "from_", "until", "offset", "count", "metadataPrefix">>

\* ChunkedResumptionToken._post_init: the months of one chunk
chunk_size == 3

\* '%s' % obj
PercentS(obj) == IF obj = None THEN <<"N", "o", "n", "e">> ELSE obj

\* ResumptionToken.decode: zip(attrs, token.split(':')); the constructor
\* sets the attributes that got no value to None
decode(cls, token) ==
    LET values == Split(token, ":")
        kwargs(i) == IF i <= Len(values) THEN values[i] ELSE None
    IN  [cls |-> cls, set |-> kwargs(1), from_ |-> kwargs(2),
         until |-> kwargs(3), offset |-> kwargs(4), count |-> kwargs(5),
         metadataPrefix |-> kwargs(6)]

ensure_str(obj) == IF obj = None THEN <<>> ELSE obj

\* ResumptionToken.encode
encode(self) ==
    Join(<<ensure_str(self.set), ensure_str(self.from_),
           ensure_str(self.until), ensure_str(self.offset),
           ensure_str(self.count), ensure_str(self.metadataPrefix)>>, ":")

\* ResumptionToken.__eq__: equal hashes of (class, encode())
TokenEq(a, b) == a.cls = b.cls /\ encode(a) = encode(b)

\* ResumptionToken._has_more_resources
has_more_resources(resources, batch_size) == Len(resources) = IntOf(batch_size)

\* YYYY-MM-DD(N), the offset of the chunked patterns
IsChunkedOffsetPattern(s) ==
    /\ Len(s) >= 13
    /\ IsDatePattern(Slice(s, 0, 10))
    /\ s[11] = "("
    /\ s[Len(s)] = ")"
    /\ IsDigits(Slice(s, 11, Len(s) - 1))

\* the date group of the patterns without its '?'
OptDate_mutant(s) == IsDatePattern(s)

\* ((\d{4})-(\d{2})-(\d{2}))?, the from and until groups of the patterns
OptDate(s) == s = <<>> \/ IsDatePattern(s)

\* token_patterns of the two classes.  No character class of the patterns
\* holds ':', so a pattern matches exactly the strings of six ':'-separated
\* fields that match its six groups.
token_patterns(cls, verb, token) ==
    LET f == Split(token, ":")
    IN  /\ Len(f) = 6
        /\ IF verb = ListSets
           THEN /\ f[1] = <<>>
                /\ OptDate(f[2])
                /\ OptDate(f[3])
                /\ IsDigits(f[4])
                /\ IsDigits(f[5])
                /\ f[6] = <<>>
           ELSE /\ f[1] = <<>> \/ IsWordOrDash(f[1])
                /\ OptDate(f[2])
                /\ OptDate(f[3])
                /\ IF cls = "Chunked" THEN IsChunkedOffsetPattern(f[4])
                                      ELSE IsDigits(f[4])
                /\ IsDigits(f[5])
                /\ IsWord(f[6])

\* ResumptionToken._is_valid_oairequest
is_valid_oairequest(cls, oairequest) ==
    token_patterns(cls, oairequest.verb, oairequest.resumptionToken)

\* ChunkedResumptionToken.new_from_request that starts the first chunk at
\* default_from, whatever the from of the request
Chunked_new_from_request_mutant(oairequest, default_count, default_from, default_until) ==
    IF Truthy(oairequest.resumptionToken)
    THEN IF ~is_valid_oairequest("Chunked", oairequest)
         THEN BadResumptionTokenError
         ELSE LET token == decode("Chunked", oairequest.resumptionToken)
              IN  IF IntOf(token.count) # default_count
                  THEN BadResumptionTokenError
                  ELSE token
    ELSE [cls |-> "Chunked",
          set |-> oairequest.set,
          from_ |-> Or(oairequest.from_, default_from),
          until |-> Or(oairequest.until, default_until),
          offset |-> PercentS(default_from) \o <<"(", "0", ")">>,
          count |-> StrOf(default_count),
          metadataPrefix |-> oairequest.metadataPrefix]

\* ChunkedResumptionToken.new_from_request
Chunked_new_from_request(oairequest, default_count, default_from, default_until) ==
    IF Truthy(oairequest.resumptionToken)
    THEN IF ~is_valid_oairequest("Chunked", oairequest)
         THEN BadResumptionTokenError
         ELSE LET token == decode("Chunked", oairequest.resumptionToken)
              IN  IF IntOf(token.count) # default_count
                  THEN BadResumptionTokenError
                  ELSE token
    ELSE [cls |-> "Chunked",
          set |-> oairequest.set,
          from_ |-> Or(oairequest.from_, default_from),
          until |-> Or(oairequest.until, default_until),
          offset |-> PercentS(Or(oairequest.from_, default_from)) \o <<"(", "0", ")">>,
          count |-> StrOf(default_count),
          metadataPrefix |-> oairequest.metadataPrefix]

\* PlainResumptionToken.new_from_request without the comparison of the count
\* of the token with default_count
Plain_new_from_request_mutant(oairequest, default_count) ==
    IF Truthy(oairequest.resumptionToken)
    THEN IF ~is_valid_oairequest("Plain", oairequest)
         THEN BadResumptionTokenError
         ELSE decode("Plain", oairequest.resumptionToken)
    ELSE [cls |-> "Plain",
          set |-> oairequest.set,
          from_ |-> oairequest.from_,
          until |-> oairequest.until,
          offset |-> <<"0">>,
          count |-> StrOf(default_count),
          metadataPrefix |-> oairequest.metadataPrefix]

\* PlainResumptionToken.new_from_request
Plain_new_from_request(oairequest, default_count) ==
    IF Truthy(oairequest.resumptionToken)
    THEN IF ~is_valid_oairequest("Plain", oairequest)
         THEN BadResumptionTokenError
         ELSE LET token == decode("Plain", oairequest.resumptionToken)
              IN  IF IntOf(token.count) # default_count
                  THEN BadResumptionTokenError
                  ELSE token
    ELSE [cls |-> "Plain",
          set |-> oairequest.set,
          from_ |-> oairequest.from_,
          until |-> oairequest.until,
          offset |-> <<"0">>,
          count |-> StrOf(default_count),
          metadataPrefix |-> oairequest.metadataPrefix]

\* is_first_page of the two classes
is_first_page(self) ==
    IF self.cls = "Chunked"
    THEN self.offset = PercentS(self.from_) \o <<"(", "0", ")">>
    ELSE self.offset = <<"0">>

\* query_from of the two classes
query_from(self) ==
    IF self.cls = "Chunked" THEN Slice(self.offset, 0, 10) ELSE self.from_

\* query_offset of the two classes
query_offset(self) ==
    IF self.cls = "Chunked"
    THEN IntOf(Slice(self.offset, Index(self.offset, "(") + 1, Len(self.offset) - 1))
    ELSE IntOf(self.offset)

\* ResumptionToken.query_count
query_count(self) == IntOf(self.count)

\* ChunkedResumptionToken._upper_limit
upper_limit(self) == self.until

\* ChunkedResumptionToken._until_month
until_month(self) ==
    LET ref_date == query_from(self)
        month == (IntOf(Slice(ref_date, 5, 7)) + chunk_size) - 1
    IN  IF month > 12 THEN 12 ELSE month

\* query_until that does not look at the upper bound
query_until_mutant(self) ==
    IF self.cls = "Chunked"
    THEN Slice(query_from(self), 0, 4) \o <<"-">> \o StrOf(until_month(self)) \o <<"-">> \o
         StrOf(lastdayofmonth(IntOf(Slice(query_from(self), 0, 4)), until_month(self)))
    ELSE self.until

\* query_until of the two classes
query_until(self) ==
    IF self.cls = "Chunked"
    THEN LET ref_date == query_from(self)
             year == Slice(ref_date, 0, 4)
             until_month_lastday == lastdayofmonth(IntOf(year), until_month(self))
             until == year \o <<"-">> \o StrOf(until_month(self)) \o <<"-">> \o
                      StrOf(until_month_lastday)
         IN  IF StrLeq(upper_limit(self), until) THEN upper_limit(self) ELSE until
    ELSE self.until

\* _incr_offset_size that writes back the offset it read
incr_offset_size_mutant(self) ==
    LET new_offset == query_offset(self)
    IN  [self EXCEPT !.offset = query_from(self) \o <<"(">> \o StrOf(new_offset) \o <<")">>]

\* ChunkedResumptionToken._incr_offset_size
incr_offset_size(self) ==
    LET new_offset == query_offset(self) + IntOf(self.count)
    IN  [self EXCEPT !.offset = query_from(self) \o <<"(">> \o StrOf(new_offset) \o <<")">>]

\* _incr_offset_from that starts the next chunk on the last day of this one
incr_offset_from_mutant(self) ==
    LET last_date == parse_date(query_until(self))
    IN  IF last_date = ValueError THEN Raise("ValueError")
        ELSE [self EXCEPT !.offset = strftime(last_date) \o <<"(", "0", ")">>]

\* ChunkedResumptionToken._incr_offset_from
incr_offset_from(self) ==
    LET last_date == parse_date(query_until(self))
    IN  IF last_date = ValueError THEN Raise("ValueError")
        ELSE [self EXCEPT !.offset = strftime(NextDay(last_date)) \o <<"(", "0", ")">>]

\* _has_more_search_space that sees no chunk after the first
has_more_search_space_mutant(self) == FALSE

\* ChunkedResumptionToken._has_more_search_space
has_more_search_space(self) == StrLess(query_until(self), upper_limit(self))

\* _incr_offset that steps over one item more than the page held
incr_offset_mutant(self) ==
    [self EXCEPT !.offset = StrOf(IntOf(self.offset) + IntOf(self.count) + 1)]

\* PlainResumptionToken._incr_offset
incr_offset(self) ==
    [self EXCEPT !.offset = StrOf(IntOf(self.offset) + IntOf(self.count))]

\* next that moves the lower bound along with the chunk
next_mutant(self, resources) ==
    IF has_more_resources(resources, self.count)
    THEN IF self.cls = "Chunked" THEN incr_offset_size(self) ELSE incr_offset(self)
    ELSE IF self.cls = "Chunked" /\ has_more_search_space(self)
    THEN LET moved == incr_offset_from(self)
         IN  IF IsToken(moved) THEN [moved EXCEPT !.from_ = query_from(moved)] ELSE moved
    ELSE NoToken

\* next of the two classes
next(self, resources) ==
    IF self.cls = "Chunked"
    THEN IF has_more_resources(resources, self.count) THEN incr_offset_size(self)
         ELSE IF has_more_search_space(self) THEN incr_offset_from(self)
         ELSE NoToken
    ELSE IF has_more_resources(resources, self.count) THEN incr_offset(self)
         ELSE NoToken

\* ------------------------------------------------------------------------
\* Configuration (oaipmh/__init__.py) and the state of the server
\* ------------------------------------------------------------------------

VARIABLES
    ds,         \* the data source: its records and its journals
    sets,       \* ArticleMetaSetsRegistry.sets: the static sets, in order
    today,      \* what now_datestamp() returns
    qstr,       \* the query string of the last request, as (key, value) pairs
    response,   \* what handle_request returned for it
    tok,        \* a resumption token object, or what was returned in its place
    fresh,      \* tok was built by new_from_request without a resumptionToken
    chain,      \* the tokens that next() was called on to arrive at tok
    fed,        \* the lengths of the pages that were given to those calls
    wire,       \* the last encode(): the token and its string
    decoded,    \* the last decode(): the token that was encoded and the result
    listed,     \* consecutive calls of the registry's list(): pages and journal queries
    harvested   \* what the harvester has collected: its first request and the pages

\* oaipmh.listslen: the page size
listslen == 2

\* oaipmh.repo.earliestdatestamp, parsed by utils.parse_date
earliest_datestamp == [y |-> 1998, m |-> 8, d |-> 1]

OAI_DC == <<"o", "a", "i", "_", "d", "c">>
OAI_DC_OPENAIRE == OAI_DC \o <<"_", "o", "p", "e", "n", "a", "i", "r", "e">>
OPENAIRE == <<"o", "p", "e", "n", "a", "i", "r", "e">>

\* Repository.formats after add_metadataformat of METADATA_FORMATS: the
\* prefixes and the augmenter of each
METADATA_FORMATS == <<OAI_DC, OAI_DC_OPENAIRE>>

formats == {METADATA_FORMATS[i] : i \in 1..Len(METADATA_FORMATS)}

\* STATIC_SETS as get_setsregistry adds them
identityview == [cls |-> "View", kind |-> "identity", issn |-> <<>>]

STATIC_SETS ==
    <<[setSpec |-> OPENAIRE, setName |-> <<"O", "p", "e", "n", "A", "I", "R", "E">>,
       view |-> identityview]>>

NoView == [cls |-> "None"]

\* ------------------------------------------------------------------------
\* The data source (the DataStore contract, oaipmh/articlemeta.py)
\* ------------------------------------------------------------------------

DoesNotExistError == Raise("DoesNotExistError")

\* DataStore.get
ds_get(ridentifier) ==
    IF \E i \in 1..Len(ds.records) : ds.records[i].ridentifier = ridentifier
    THEN LET i == CHOOSE i \in 1..Len(ds.records) : ds.records[i].ridentifier = ridentifier
         IN  [cls |-> "Resource", resource |-> ds.records[i]]
    ELSE DoesNotExistError

\* datastores.datestamp_to_tuple
datestamp_to_tuple(datestamp) ==
    LET parts == Split(datestamp, "-")
    IN  [i \in 1..Len(parts) |-> IntOf(parts[i])]

\* a <= b on tuples of int
RECURSIVE TupleLeq(_, _)
TupleLeq(a, b) ==
    IF a = <<>> THEN TRUE
    ELSE IF b = <<>> THEN FALSE
    ELSE IF a[1] = b[1] THEN TupleLeq(Tail(a), Tail(b))
    ELSE a[1] < b[1]

\* what a view selects: identityview everything, the view of a journal set
\* (ArticleMetaFilteredView on code_title) the records of that journal
InView(view, res) ==
    \/ view = NoView
    \/ view.kind = "identity"
    \/ view.kind = "journal" /\ res.setspec = view.issn

\* DataStore.list: items offset .. offset+count-1 of the records of the view
\* with _from <= datestamp <= until, in the order of the data source
ds_list(offset, count, view, from_, until) ==
    LET selected(res) ==
            /\ InView(view, res)
            /\ Truthy(from_) =>
                  TupleLeq(datestamp_to_tuple(from_), datestamp_to_tuple(res.datestamp))
            /\ Truthy(until) =>
                  TupleLeq(datestamp_to_tuple(res.datestamp), datestamp_to_tuple(until))
    IN  Slice(SelectSeq(ds.records, selected), offset, offset + count)

\* DataStore.get_journal
ds_get_journal(issn) ==
    IF \E i \in 1..Len(ds.journals) : ds.journals[i] = issn
    THEN [cls |-> "Journal", lead_issn |-> issn]
    ELSE DoesNotExistError

\* Journal.title of the journal of an ISSN
Journal_title(issn) == <<"t">> \o issn

\* DataStore.list_journals
ds_list_journals(offset, count) == Slice(ds.journals, offset, offset + count)

\* ------------------------------------------------------------------------
\* The sets registry (oaipmh/articlemeta.py)
\* ------------------------------------------------------------------------

\* translate_virtual_offset that forgets to take the static sets off
translate_virtual_offset_mutant(size, offset) ==
    LET real_offset == offset - size
    IN  IF real_offset <= 0 THEN 0 ELSE offset

\* translate_virtual_offset (oaipmh/sets.py, oaipmh/articlemeta.py)
translate_virtual_offset(size, offset) ==
    LET real_offset == offset - size
    IN  IF real_offset <= 0 THEN 0 ELSE real_offset

\* get_sets_from_journals that starts at the first journal whatever the
\* offset
get_sets_from_journals_mutant(offset, count) ==
    LET journals == ds_list_journals(0, count)
    IN  [i \in 1..Len(journals) |->
            [setSpec |-> journals[i], setName |-> Journal_title(journals[i])]]

\* map_journal_to_set over the journals of get_sets_from_journals
get_sets_from_journals(offset, count) ==
    LET journals == ds_list_journals(offset, count)
    IN  [i \in 1..Len(journals) |->
            [setSpec |-> journals[i], setName |-> Journal_title(journals[i])]]

\* add() that appends the registration whatever is registered
SetsRegistry_add_mutant(registry, metadata, view) ==
    Append(registry,
           [setSpec |-> metadata.setSpec, setName |-> metadata.setName, view |-> view])

\* ArticleMetaSetsRegistry.add on the OrderedDict of the registry: a key
\* that is there keeps its place and takes the new value, a new key goes
\* to the end
SetsRegistry_add(registry, metadata, view) ==
    IF \E i \in 1..Len(registry) : registry[i].setSpec = metadata.setSpec
    THEN [i \in 1..Len(registry) |->
             IF registry[i].setSpec = metadata.setSpec
             THEN [setSpec |-> metadata.setSpec, setName |-> metadata.setName,
                   view |-> view]
             ELSE registry[i]]
    ELSE Append(registry,
                [setSpec |-> metadata.setSpec, setName |-> metadata.setName,
                 view |-> view])

\* list() that asks the data source for a whole page of journals
SetsRegistry_list_calls_mutant(offset, count) ==
    << <<translate_virtual_offset(Len(sets), offset), count>> >>

\* ArticleMetaSetsRegistry.list, the calls of get_sets_from_journals it
\* makes, each with its offset and count: one when the static part does not
\* fill the page, none when it does
SetsRegistry_list_calls(offset, count) ==
    LET static_part == Slice(sets, offset, offset + count)
    IN  IF Len(static_part) < count
        THEN << <<translate_virtual_offset(Len(sets), offset), count - Len(static_part)>> >>
        ELSE <<>>

\* ArticleMetaSetsRegistry.list
SetsRegistry_list(offset, count) ==
    LET static_part ==
            Slice([i \in 1..Len(sets) |->
                      [setSpec |-> sets[i].setSpec, setName |-> sets[i].setName]],
                  offset, offset + count)
        calls == SetsRegistry_list_calls(offset, count)
        dynamic_part ==
            IF calls # <<>> THEN get_sets_from_journals(calls[1][1], calls[1][2])
            ELSE <<>>
    IN  static_part \o dynamic_part

\* ArticleMetaSetsRegistry.get_view: the static view, else the view of the
\* journal setspec names, else None
get_view(setspec) ==
    IF \E i \in 1..Len(sets) : sets[i].setSpec = setspec
    THEN sets[CHOOSE i \in 1..Len(sets) : sets[i].setSpec = setspec].view
    ELSE LET journal == ds_get_journal(setspec)
         IN  IF IsError(journal) THEN NoView
             ELSE [cls |-> "View", kind |-> "journal", issn |-> journal.lead_issn]

\* ------------------------------------------------------------------------
\* Requests (oaipmh/repository.py)
\* ------------------------------------------------------------------------

OAIPMH_LEGAL_ARGS ==
    {"verb", "identifier", "metadataPrefix", "set", "resumptionToken", "from", "until"}

\* the keys of Repository.verbs
verbs == {Identify, GetRecord, ListRecords, ListIdentifiers, ListMetadataFormats, ListSets}

\* urllib.parse.parse_qs(qstr): the values of each key in order; a pair
\* with a blank value is dropped (keep_blank_values is False), so a key
\* with blank values only does not appear
parse_qs(pairs) ==
    LET kept == SelectSeq(pairs, LAMBDA p : p[2] # <<>>)
        values(k) == LET own == SelectSeq(kept, LAMBDA p : p[1] = k)
                     IN  [i \in 1..Len(own) |-> own[i][2]]
    IN  [k \in {kept[i][1] : i \in 1..Len(kept)} |-> values(k)]

get_or_default(mapping, key) ==
    IF key \in DOMAIN mapping THEN mapping[key][1] ELSE None

\* has_illegal_args taking identifier for an illegal argument
has_illegal_args_mutant(parsed_qstr) ==
    \E arg \in DOMAIN parsed_qstr : arg \notin OAIPMH_LEGAL_ARGS \ {"identifier"}

has_illegal_args(parsed_qstr) ==
    \E arg \in DOMAIN parsed_qstr : arg \notin OAIPMH_LEGAL_ARGS

has_repeated_args(parsed_qstr) ==
    \E arg \in DOMAIN parsed_qstr : Len(parsed_qstr[arg]) > 1

oairequest_from_querystring(parsed_qstr) ==
    [verb |-> get_or_default(parsed_qstr, "verb"),
     identifier |-> get_or_default(parsed_qstr, "identifier"),
     metadataPrefix |-> get_or_default(parsed_qstr, "metadataPrefix"),
     set |-> get_or_default(parsed_qstr, "set"),
     resumptionToken |-> get_or_default(parsed_qstr, "resumptionToken"),
     from_ |-> get_or_default(parsed_qstr, "from"),
     until |-> get_or_default(parsed_qstr, "until")]

\* check_request_args.wrapper: the names of the non-empty arguments
\* (asdict strips the underscore of from_)
detected_args(oaireq) ==
    {k \in OAIPMH_LEGAL_ARGS : Truthy(oaireq[IF k = "from" THEN "from_" ELSE k])}

\* are_equal that only asks for the expected arguments to be there
are_equal_mutant(expected_args, args) == expected_args \subseteq args

are_equal(expected_args, args) == expected_args = args

\* check_listrecords_args without from among the arguments that exclude a
\* resumptionToken
check_listrecords_args_mutant(args) ==
    IF "verb" \notin args THEN FALSE
    ELSE IF "resumptionToken" \in args
         THEN ~\E arg \in {"until", "set", "metadataPrefix"} : arg \in args
         ELSE "metadataPrefix" \in args

check_listrecords_args(args) ==
    IF "verb" \notin args THEN FALSE
    ELSE IF "resumptionToken" \in args
         THEN ~\E arg \in {"from", "until", "set", "metadataPrefix"} : arg \in args
         ELSE "metadataPrefix" \in args

check_listsets_args(args) ==
    IF "verb" \notin args THEN FALSE
    ELSE IF "resumptionToken" \in args
         THEN ~\E arg \in {"from", "until", "set"} : arg \in args
         ELSE "metadataPrefix" \notin args

check_listmetadataformats_args(args) ==
    IF "verb" \notin args THEN FALSE
    ELSE ~\E arg \in {"from", "until", "set", "metadataPrefix"} : arg \in args

\* get_granularity_validator: oaipmh.repo.granularity_regex
granularity_validator(date_time) == IsDatePattern(date_time)

clean_oairequest_verb(oairequest) ==
    IF oairequest.verb \notin verbs THEN [oairequest EXCEPT !.verb = None]
    ELSE oairequest

\* clean_oairequest_dates that looks at from only
clean_oairequest_dates_mutant(oairequest) ==
    LET scrub(v) == IF Truthy(v) /\ ~granularity_validator(v) THEN None ELSE v
    IN  [oairequest EXCEPT !.from_ = scrub(oairequest.from_)]

clean_oairequest_dates(oairequest) ==
    LET scrub(v) == IF Truthy(v) /\ ~granularity_validator(v) THEN None ELSE v
    IN  [oairequest EXCEPT !.from_ = scrub(oairequest.from_),
                           !.until = scrub(oairequest.until)]

\* Repository._clean_oairequest
clean_oairequest(oairequest) == clean_oairequest_dates(clean_oairequest_verb(oairequest))

\* ------------------------------------------------------------------------
\* Result pages (oaipmh/repository.py)
\* ------------------------------------------------------------------------

\* what a handler body returns to the serializer
Body(resources, token, fmt) ==
    [cls |-> "Body", resources |-> resources, token |-> token, format |-> fmt]

Data(resources) == [cls |-> "Data", resources |-> resources]

\* _current_resumption_token that gives a token without until the date of
\* the day
Records_current_resumption_token_mutant(oairequest) ==
    LET token == Chunked_new_from_request(oairequest, listslen,
                                          strftime(earliest_datestamp), today)
    IN  IF IsToken(token) /\ ~Truthy(token.until) THEN [token EXCEPT !.until = today]
        ELSE token

\* RecordsResultPage._current_resumption_token
Records_current_resumption_token(oairequest) ==
    Chunked_new_from_request(oairequest, listslen, strftime(earliest_datestamp), today)

\* SetsResultPage._current_resumption_token
Sets_current_resumption_token(oairequest) ==
    Plain_new_from_request(oairequest, listslen)

\* RecordsResultPage._ensure_datestamps_are_valid: TRUE when it returns,
\* FALSE when it raises BadArgumentError
ensure_datestamps_are_valid(token) ==
    /\ ~(Truthy(token.from_) /\ ~granularity_validator(token.from_))
    /\ ~(Truthy(token.until) /\ ~granularity_validator(token.until))
    /\ ~(Truthy(token.from_) /\ Truthy(token.until) /\ StrLess(token.until, token.from_))

\* RecordsResultPage._get_query_view, with the view of the set
checked_view(view) == IF view = NoView THEN BadArgumentError ELSE view

\* RecordsResultPage._get_query_view
get_query_view(token) ==
    IF Truthy(token.set) THEN checked_view(get_view(token.set)) ELSE NoView

\* RecordsResultPage._query_resources
query_resources(token, view) ==
    IF IsError(view) THEN view
    ELSE Data(ds_list(query_offset(token), query_count(token), view,
                      query_from(token), query_until(token)))

\* RecordsResultPage._query_resources_by_token
query_resources_by_token(token) == query_resources(token, get_query_view(token))

\* data that raises NoRecordsMatchError for every empty page
first_page_has_records_mutant(token, resources) ==
    IF IsError(resources) THEN resources
    ELSE IF resources.resources = <<>> THEN NoRecordsMatchError
    ELSE resources

\* RecordsResultPage.data, with the resources of the query
first_page_has_records(token, resources) ==
    IF IsError(resources) THEN resources
    ELSE IF is_first_page(token) /\ resources.resources = <<>>
    THEN NoRecordsMatchError
    ELSE resources

\* RecordsResultPage.data
Records_data(token) ==
    IF ~ensure_datestamps_are_valid(token) THEN BadArgumentError
    ELSE first_page_has_records(token, query_resources_by_token(token))

\* SetsResultPage.data
Sets_data(token) == Data(SetsRegistry_list(query_offset(token), query_count(token)))

\* select_format that takes the first registered format for every token
select_format_mutant(token) == [cls |-> "Format", prefix |-> METADATA_FORMATS[1]]

\* RecordsResultPage.select_format: formats[token.metadataPrefix]
select_format(token) ==
    IF token.metadataPrefix \in formats THEN [cls |-> "Format", prefix |-> token.metadataPrefix]
    ELSE Raise("KeyError")

\* the augmenter of the format: the identity for oai_dc,
\* oai_dc_openaire.augment_metadata for oai_dc_openaire
augmenter(fmt, resource) ==
    IF fmt = OAI_DC_OPENAIRE
    THEN [resource EXCEPT !.rights = Append(@, "info:eu-repo/semantics/openAccess")]
    ELSE resource

\* the Resource a handler gave to the augmenter of the format, after the
\* call: oai_dc_openaire.augment_metadata appends to the lists of the
\* object it is given and returns that same object, the identity of oai_dc
\* returns it untouched
augmenter_argument(fmt, resource) == augmenter(fmt, resource)

\* ------------------------------------------------------------------------
\* The verb handlers and the dispatcher (oaipmh/repository.py)
\* ------------------------------------------------------------------------

\* check_request_args.wrapper: the handler body runs only when the
\* arguments pass checking_func
check_request_args(passes, body) ==
    IF passes THEN [ran |-> TRUE, out |-> body]
    ELSE [ran |-> FALSE, out |-> BadArgumentError]

\* _fetch_resource that lets the exception of the data source through
fetch_resource_mutant(ridentifier) == ds_get(ridentifier)

\* Repository._fetch_resource
fetch_resource(ridentifier) ==
    LET found == ds_get(ridentifier)
    IN  IF IsError(found) THEN IdDoesNotExistError ELSE found

\* _resource_exists that takes every identifier for an existing one
resource_exists_mutant(ridentifier) == TRUE

\* Repository._resource_exists
resource_exists(ridentifier) == ~IsError(fetch_resource(ridentifier))

identify_body(oairequest) == Body(<<>>, NoToken, <<>>)

\* get_record that fetches the resource before it looks at the format
get_record_body_mutant(oairequest) ==
    LET found == fetch_resource(oairequest.identifier)
    IN  IF IsError(found) THEN found
        ELSE IF oairequest.metadataPrefix \notin formats THEN CannotDisseminateFormatError
        ELSE Body(<<augmenter(oairequest.metadataPrefix, found.resource)>>,
                  NoToken, oairequest.metadataPrefix)

get_record_body(oairequest) ==
    IF oairequest.metadataPrefix \notin formats THEN CannotDisseminateFormatError
    ELSE LET found == fetch_resource(oairequest.identifier)
         IN  IF IsError(found) THEN found
             ELSE Body(<<augmenter(oairequest.metadataPrefix, found.resource)>>,
                       NoToken, oairequest.metadataPrefix)

\* Repository.list_records, the serialization of the augmented resources
\* and of the next token
list_records_next(fmt, data, next_token) ==
    IF IsError(next_token) THEN next_token
    ELSE Body([i \in 1..Len(data.resources) |-> augmenter(fmt.prefix, data.resources[i])],
              next_token, fmt.prefix)

\* Repository.list_records, from resultpage.data on
list_records_data(token, fmt, data) ==
    IF IsError(data) THEN data
    ELSE list_records_next(fmt, data, next(token, data.resources))

\* Repository.list_records, from select_format on
list_records_format(token, fmt) ==
    IF IsError(fmt) THEN fmt
    ELSE list_records_data(token, fmt, Records_data(token))

\* Repository.list_records, with the token of the page
list_records_page(token) ==
    IF IsError(token) THEN token
    ELSE list_records_format(token, select_format(token))

list_records_body(oairequest) ==
    IF ~Truthy(oairequest.resumptionToken) /\ oairequest.metadataPrefix \notin formats
    THEN CannotDisseminateFormatError
    ELSE list_records_page(Records_current_resumption_token(oairequest))

\* Repository.list_identifiers, the serialization of the resources and of
\* the next token
list_identifiers_next(data, next_token) ==
    IF IsError(next_token) THEN next_token
    ELSE Body(data.resources, next_token, <<>>)

\* Repository.list_identifiers, from resultpage.data on
list_identifiers_data(token, data) ==
    IF IsError(data) THEN data
    ELSE list_identifiers_next(data, next(token, data.resources))

\* Repository.list_identifiers, with the token of the page
list_identifiers_page(token) ==
    IF IsError(token) THEN token
    ELSE list_identifiers_data(token, Records_data(token))

list_identifiers_body(oairequest) ==
    IF ~Truthy(oairequest.resumptionToken) /\ oairequest.metadataPrefix \notin formats
    THEN CannotDisseminateFormatError
    ELSE list_identifiers_page(Records_current_resumption_token(oairequest))

list_metadata_formats_body(oairequest) ==
    IF Truthy(oairequest.identifier) /\ ~resource_exists(oairequest.identifier)
    THEN IdDoesNotExistError
    ELSE Body([i \in 1..Len(METADATA_FORMATS) |-> [metadataPrefix |-> METADATA_FORMATS[i]]],
              NoToken, <<>>)

\* Repository.list_sets, from resultpage.data on
list_sets_data(token, data) ==
    Body(data.resources, next(token, data.resources), <<>>)

\* Repository.list_sets, with the token of the page
list_sets_page(token) ==
    IF IsError(token) THEN token
    ELSE list_sets_data(token, Sets_data(token))

list_sets_body(oairequest) == list_sets_page(Sets_current_resumption_token(oairequest))

\* the decorated handlers of Repository
identify(oairequest) ==
    check_request_args(are_equal({"verb"}, detected_args(oairequest)),
                       identify_body(oairequest))

get_record(oairequest) ==
    check_request_args(are_equal({"verb", "metadataPrefix", "identifier"},
                                 detected_args(oairequest)),
                       get_record_body(oairequest))

list_records(oairequest) ==
    check_request_args(check_listrecords_args(detected_args(oairequest)),
                       list_records_body(oairequest))

list_identifiers(oairequest) ==
    check_request_args(check_listrecords_args(detected_args(oairequest)),
                       list_identifiers_body(oairequest))

list_metadata_formats(oairequest) ==
    check_request_args(check_listmetadataformats_args(detected_args(oairequest)),
                       list_metadata_formats_body(oairequest))

list_sets(oairequest) ==
    check_request_args(check_listsets_args(detected_args(oairequest)),
                       list_sets_body(oairequest))

\* the documents of the serializers: a success document of a verb, one of
\* the six error documents, or no document when an exception escapes
Response(status, code, handler, request, resources, resumptionToken, fmt) ==
    [status |-> status, code |-> code, handler |-> handler, request |-> request,
     resources |-> resources, resumptionToken |-> resumptionToken, format |-> fmt]

serialize_error(code, handler, request) ==
    Response("error", code, handler, request, <<>>, <<>>, <<>>)

serialize_success(handler, request, body) ==
    Response("success", handler, handler, request, body.resources,
             IF body.token = NoToken THEN <<>> ELSE encode(body.token), body.format)

\* except clauses where NoRecordsMatchError is answered as a missing
\* identifier
handle_result_mutant(verb, oairequest, ran, out) ==
    IF ~IsError(out) THEN serialize_success(verb, oairequest, out)
    ELSE IF out = BadArgumentError
    THEN serialize_error("badArgument", IF ran THEN verb ELSE "none",
                         clean_oairequest(oairequest))
    ELSE IF out \in {IdDoesNotExistError, NoRecordsMatchError}
    THEN serialize_error("idDoesNotExist", verb, oairequest)
    ELSE IF out = BadResumptionTokenError
    THEN serialize_error("badResumptionToken", verb, oairequest)
    ELSE IF out = CannotDisseminateFormatError
    THEN serialize_error("cannotDisseminateFormat", verb, oairequest)
    ELSE Response("exception", out.error, verb, oairequest, <<>>, <<>>, <<>>)

\* Repository.handle_request, the except clauses around the call of the
\* handler of the verb
handle_result(verb, oairequest, ran, out) ==
    IF ~IsError(out) THEN serialize_success(verb, oairequest, out)
    ELSE IF out = BadArgumentError
    THEN serialize_error("badArgument", IF ran THEN verb ELSE "none",
                         clean_oairequest(oairequest))
    ELSE IF out = IdDoesNotExistError
    THEN serialize_error("idDoesNotExist", verb, oairequest)
    ELSE IF out = BadResumptionTokenError
    THEN serialize_error("badResumptionToken", verb, oairequest)
    ELSE IF out = NoRecordsMatchError
    THEN serialize_error("noRecordsMatch", verb, oairequest)
    ELSE IF out = CannotDisseminateFormatError
    THEN serialize_error("cannotDisseminateFormat", verb, oairequest)
    ELSE Response("exception", out.error, verb, oairequest, <<>>, <<>>, <<>>)

\* Repository.handle_request, the look-up of the verb in Repository.verbs
\* and the call of its handler
call_verb(verb, oairequest, result) ==
    handle_result(verb, oairequest, result.ran, result.out)

dispatch(verb, oairequest) ==
    CASE verb = "Identify" -> call_verb(verb, oairequest, identify(oairequest))
      [] verb = "GetRecord" -> call_verb(verb, oairequest, get_record(oairequest))
      [] verb = "ListRecords" -> call_verb(verb, oairequest, list_records(oairequest))
      [] verb = "ListIdentifiers" -> call_verb(verb, oairequest, list_identifiers(oairequest))
      [] verb = "ListMetadataFormats" ->
            call_verb(verb, oairequest, list_metadata_formats(oairequest))
      [] verb = "ListSets" -> call_verb(verb, oairequest, list_sets(oairequest))

\* Repository.handle_request, from the parsed query string on
handle_oairequest(parsed_qstr, oairequest) ==
    IF has_illegal_args(parsed_qstr) \/ has_repeated_args(parsed_qstr)
    THEN serialize_error("badArgument", "none", clean_oairequest(oairequest))
    ELSE IF oairequest.verb \notin verbs
    THEN serialize_error("badVerb", "none", clean_oairequest(oairequest))
    ELSE dispatch(oairequest.verb[1], oairequest)

handle_parsed_qstr(parsed_qstr) ==
    handle_oairequest(parsed_qstr, oairequest_from_querystring(parsed_qstr))

\* Repository.handle_request
handle_request(pairs) == handle_parsed_qstr(parse_qs(pairs))

\* ------------------------------------------------------------------------
\* The inputs: data sources, clocks and query strings
\* ------------------------------------------------------------------------

\* the records of the largest data source
MaxRecords == 4

\* the journals of the largest data source
MaxJournals == 3

\* the lead ISSN of the i-th journal
JournalIssn(i) == <<"0", "0", "0", Digits[i + 1], "-", "0", "0", "0", "1">>

\* the i-th record: one record a month from the earliest datestamp on,
\* alternating between the first two journals
Record(i) ==
    LET months == (earliest_datestamp.m - 1) + (i - 1)
    IN  [ridentifier |-> <<"r", Digits[i + 1]>>,
         datestamp |-> strftime([y |-> earliest_datestamp.y + (months \div 12),
                                 m |-> (months % 12) + 1, d |-> 15]),
         setspec |-> JournalIssn(2 - (i % 2)),
         rights |-> <<>>]

DataSource(n) ==
    [records |-> [i \in 1..n |-> Record(i)],
     journals |-> [i \in 1..(IF n < MaxJournals THEN n ELSE MaxJournals) |-> JournalIssn(i)]]

\* the data sources of 0 to MaxRecords records, and one whose only record
\* is of the month after the first chunk_size months
DataSources ==
    {DataSource(n) : n \in 0..MaxRecords}
    \cup {[records |-> <<Record(chunk_size + 1)>>,
           journals |-> <<Record(chunk_size + 1).setspec>>]}

\* the current date: late in the year of the earliest datestamp, or early
\* in the next year
Todays == {strftime([y |-> earliest_datestamp.y, m |-> 11, d |-> 6]),
           strftime([y |-> earliest_datestamp.y + 1, m |-> 2, d |-> 10])}

\* an argument that the query string does not carry
Absent == <<"Absent">>

MkQuery(v, i, m, s, r, f, u) ==
    SelectSeq(<< <<"verb", v>>, <<"identifier", i>>, <<"metadataPrefix", m>>,
                 <<"set", s>>, <<"resumptionToken", r>>, <<"from", f>>,
                 <<"until", u>> >>,
              LAMBDA p : p[2] # Absent)

FOO == <<"f", "o", "o">>

DateFrom == strftime(earliest_datestamp)
DateMid == strftime([earliest_datestamp EXCEPT !.m = 10])
DateEnd == strftime([earliest_datestamp EXCEPT !.m = 12, !.d = 31])

VerbValues == verbs \cup {<<"NoSuchVerb">>, Absent}

\* well-formed tokens of the two classes for the configured page size
ChunkedTokenString ==
    Join(<<<<>>, <<>>, <<>>, DateFrom \o <<"(", "0", ")">>, StrOf(listslen), OAI_DC>>, ":")

PlainTokenString ==
    Join(<<<<>>, <<>>, <<>>, StrOf(listslen), StrOf(listslen), <<>>>>, ":")

\* every verb with every set of arguments
ArgumentSetQueries ==
    {MkQuery(v, i, m, s, r, f, u) :
        v \in VerbValues,
        i \in {Absent, Record(1).ridentifier},
        m \in {Absent, OAI_DC},
        s \in {Absent, OPENAIRE},
        r \in {Absent, ChunkedTokenString, PlainTokenString},
        f \in {Absent, DateFrom},
        u \in {Absent, DateEnd}}

\* first requests of the listing verbs
FirstListQueries ==
    {MkQuery(v, Absent, m, s, Absent, f, u) :
        v \in {ListRecords, ListIdentifiers, ListSets},
        m \in {Absent, OAI_DC, OAI_DC_OPENAIRE, FOO},
        s \in {Absent, OPENAIRE, JournalIssn(1), FOO, <<"a", ":", "b">>},
        f \in {Absent, <<>>, DateFrom, DateMid, <<"1", "9", "9", "8", "-", "1", "0">>},
        u \in {Absent, DateFrom, DateEnd, <<"1", "9", "9", "8">>}}

\* resumption tokens as a client may send them
TokenStrings ==
    {Join(<<s, f, u, o, c, m>>, ":") :
        s \in {<<>>, OPENAIRE},
        f \in {<<>>, DateFrom},
        u \in {<<>>, DateEnd},
        o \in {DateFrom \o <<"(", "0", ")">>, DateMid \o <<"(", "2", ")">>,
               DateFrom \o <<"(", "x", ")">>, <<"0">>, <<"2">>},
        c \in {StrOf(listslen), <<"0">> \o StrOf(listslen), StrOf(listslen + 1), <<"x">>},
        m \in {OAI_DC, FOO, <<>>}}
    \cup {Join(<<<<>>, <<>>, DateFrom \o <<"(", "0", ")">>, StrOf(listslen), OAI_DC>>, ":"),
          Join(<<<<>>, <<>>, <<>>, <<>>, DateFrom \o <<"(", "0", ")">>, StrOf(listslen), OAI_DC>>, ":"),
          <<"x">>}

\* requests with a token; the tokens of the second part name each format,
\* and no set, a set that is no set of the registry, or the first or last
\* journal
ResumptionQueries ==
    {MkQuery(v, Absent, Absent, Absent, r, Absent, Absent) :
        v \in {ListRecords, ListIdentifiers, ListSets}, r \in TokenStrings}
    \cup {MkQuery(v, Absent, Absent, Absent,
                  Join(<<s, <<>>, <<>>, DateFrom \o <<"(", "0", ")">>, StrOf(listslen), m>>, ":"),
                  Absent, Absent) :
            v \in {ListRecords, ListIdentifiers},
            s \in {<<>>, FOO, JournalIssn(1), JournalIssn(MaxJournals)},
            m \in {OAI_DC, OAI_DC_OPENAIRE, FOO}}

\* GetRecord and ListMetadataFormats
IdentifierQueries ==
    {MkQuery(v, i, m, Absent, Absent, Absent, Absent) :
        v \in {GetRecord, ListMetadataFormats},
        i \in {Absent, Record(1).ridentifier, Record(MaxRecords).ridentifier, <<"r", "x">>},
        m \in {Absent, OAI_DC, OAI_DC_OPENAIRE, FOO}}

\* a request followed by one more pair: an illegal key, a repeated key, or
\* either of them with a blank value
ExtraPairQueries ==
    {MkQuery(v, Absent, m, Absent, Absent, Absent, Absent) \o <<p>> :
        v \in VerbValues,
        m \in {Absent, OAI_DC},
        p \in {<<"illegalarg", FOO>>, <<"illegalarg", <<>>>>,
               <<"verb", Identify>>, <<"verb", <<>>>>,
               <<"metadataPrefix", OAI_DC>>, <<"metadataPrefix", <<>>>>}}

\* tokens and first requests whose from is later than their until or
\* than the earlier current date, or is not a date of the granularity; and
\* first requests from the first and from the seventh month of the year
DateRangeTokens ==
    {Join(<<<<>>, f, u, f \o <<"(", "0", ")">>, StrOf(listslen), m>>, ":") :
        f \in {DateEnd, <<"1", "9", "9", "8", "-", "1", "0">>},
        u \in {<<>>, DateFrom, <<"1", "9", "9", "8">>},
        m \in {OAI_DC, FOO}}

DateRangeQueries ==
    {MkQuery(v, Absent, Absent, Absent, r, Absent, Absent) :
        v \in {ListRecords, ListIdentifiers}, r \in DateRangeTokens}
    \cup {MkQuery(v, Absent, m, Absent, Absent, DateEnd, u) :
            v \in {ListRecords, ListIdentifiers},
            m \in {OAI_DC, FOO},
            u \in {Absent, DateFrom}}
    \cup {MkQuery(v, Absent, OAI_DC, Absent, Absent,
                  strftime([earliest_datestamp EXCEPT !.m = m]), u) :
            v \in {ListRecords, ListIdentifiers},
            m \in {1, 7},
            u \in {Absent, DateEnd}}

QueryStrings ==
    ArgumentSetQueries \cup FirstListQueries \cup ResumptionQueries
        \cup IdentifierQueries \cup ExtraPairQueries \cup DateRangeQueries

\* ------------------------------------------------------------------------
\* The server and its harvesters
\* ------------------------------------------------------------------------

NoRequest ==
    [verb |-> None, identifier |-> None, metadataPrefix |-> None, set |-> None,
     resumptionToken |-> None, from_ |-> None, until |-> None]

NoResponse == Response("none", "none", "none", NoRequest, <<>>, <<>>, <<>>)

serverVars == <<ds, sets, today, qstr, response>>

tokenVars == <<tok, fresh, chain, fed, wire, decoded>>

vars == <<serverVars, tokenVars, listed, harvested>>

\* the harvester has collected nothing
NoHarvest == [first |-> <<>>, resources |-> <<>>]

\* no call of the registry's list() yet
NoListing == [adds |-> <<>>, offset |-> 0, count |-> 0, pages |-> <<>>, calls |-> <<>>]

NoTokenState ==
    /\ tok = NoToken
    /\ fresh = FALSE
    /\ chain = <<>>
    /\ fed = <<>>
    /\ wire = [of |-> NoToken, str |-> <<>>]
    /\ decoded = [of |-> NoToken, token |-> NoToken]

Init ==
    /\ ds \in DataSources
    /\ sets = STATIC_SETS
    /\ today \in Todays
    /\ qstr = <<>>
    /\ response = NoResponse
    /\ NoTokenState
    /\ listed = NoListing
    /\ harvested = NoHarvest

\* a client that has no exchange under way sends a query string and the
\* server answers it
Request ==
    /\ response = NoResponse
    /\ \E q \in QueryStrings :
          /\ qstr' = q
          /\ response' = handle_request(q)
          /\ harvested' = [first |-> q, resources |-> response'.resources]
    /\ UNCHANGED <<ds, sets, today, tokenVars, listed>>

\* a harvester sends back the resumptionToken of the last page, with the
\* verb as the only other argument
Resume ==
    /\ response.status = "success"
    /\ response.resumptionToken # <<>>
    /\ qstr' = << <<"verb", response.request.verb>>,
                  <<"resumptionToken", response.resumptionToken>> >>
    /\ response' = handle_request(qstr')
    /\ harvested' = [harvested EXCEPT !.resources = @ \o response'.resources]
    /\ UNCHANGED <<ds, sets, today, tokenVars, listed>>

\* the client is done with the response; the server keeps nothing of it
Done ==
    /\ response # NoResponse
    /\ qstr' = <<>>
    /\ response' = NoResponse
    /\ harvested' = NoHarvest
    /\ UNCHANGED <<ds, sets, today, tokenVars, listed>>

Next == Request \/ Resume \/ Done

Spec == Init /\ [][Next]_vars

\* ------------------------------------------------------------------------
\* A harvest: a first request of a listing verb, then only the returned
\* resumption tokens.  The harvester sends the next request whenever there
\* is a token to send.
\* ------------------------------------------------------------------------

\* the first requests of the harvests
HarvestQueries ==
    {MkQuery(v, Absent, OAI_DC, s, Absent, f, u) :
        v \in {ListRecords, ListIdentifiers},
        s \in {Absent, OPENAIRE, JournalIssn(1)},
        f \in {Absent, DateMid},
        u \in {Absent, DateEnd}}
    \cup {MkQuery(ListSets, Absent, Absent, s, Absent, f, Absent) :
             s \in {Absent, OPENAIRE},
             f \in {Absent, DateFrom}}

\* the harvester sends its first request
Start ==
    /\ response = NoResponse
    /\ \E q \in HarvestQueries :
          /\ qstr' = q
          /\ response' = handle_request(q)
          /\ harvested' = [first |-> q, resources |-> response'.resources]
    /\ UNCHANGED <<ds, sets, today, tokenVars, listed>>

HarvestNext == Start \/ Resume

HarvestSpec == Init /\ [][HarvestNext]_vars /\ WF_vars(Resume)

\* ------------------------------------------------------------------------
\* The token objects on their own: built from a request or decoded from a
\* string, advanced by next(), encoded and decoded
\* ------------------------------------------------------------------------

\* the calls of next() in one chain
MaxChain == 3

\* the requests that reach new_from_request
TokenRequests ==
    {oairequest_from_querystring(parse_qs(q)) :
        q \in FirstListQueries \cup ResumptionQueries \cup DateRangeQueries}

\* ResultPageFactory.__call__: the token class of the verb
TokenClass(verb) == IF verb = ListSets THEN "Plain" ELSE "Chunked"

TokenInit ==
    /\ ds = DataSource(0)
    /\ sets = STATIC_SETS
    /\ today \in Todays
    /\ qstr = <<>>
    /\ response = NoResponse
    /\ NoTokenState
    /\ listed = NoListing
    /\ harvested = NoHarvest

\* _current_resumption_token of the page of the verb
NewFromRequest ==
    /\ tok = NoToken
    /\ chain = <<>>
    /\ \E oairequest \in TokenRequests :
          /\ tok' = IF TokenClass(oairequest.verb) = "Chunked"
                    THEN Records_current_resumption_token(oairequest)
                    ELSE Sets_current_resumption_token(oairequest)
          /\ fresh' = ~Truthy(oairequest.resumptionToken)
    /\ chain' = <<>>
    /\ fed' = <<>>
    /\ UNCHANGED <<serverVars, wire, decoded, listed, harvested>>

\* next() with the page of a query, a full one or one that is an item
\* short; a records page is queried only after _ensure_datestamps_are_valid
NextPage ==
    /\ IsToken(tok)
    /\ tok.cls = "Chunked" => ensure_datestamps_are_valid(tok)
    /\ Len(chain) < MaxChain
    /\ wire.of = NoToken
    /\ \E n \in {query_count(tok) - 1, query_count(tok)} :
          /\ tok' = next(tok, [i \in 1..n |-> i])
          /\ fed' = Append(fed, n)
    /\ chain' = Append(chain, tok)
    /\ fresh' = FALSE
    /\ UNCHANGED <<serverVars, wire, decoded, listed, harvested>>

Encode ==
    /\ IsToken(tok)
    /\ wire.of = NoToken
    /\ wire' = [of |-> tok, str |-> encode(tok)]
    /\ UNCHANGED <<serverVars, tok, fresh, chain, fed, decoded, listed, harvested>>

Decode ==
    /\ IsToken(wire.of)
    /\ decoded.of = NoToken
    /\ decoded' = [of |-> wire.of, token |-> decode(wire.of.cls, wire.str)]
    /\ UNCHANGED <<serverVars, tok, fresh, chain, fed, wire, listed, harvested>>

TokenNext == NewFromRequest \/ NextPage \/ Encode \/ Decode

TokenSpec == TokenInit /\ [][TokenNext]_vars

\* ------------------------------------------------------------------------
\* The sets registry on its own: consecutive pages of list()
\* ------------------------------------------------------------------------

\* the static sets of the largest registry
MaxStatic == 3

\* the largest offset of a first page
MaxOffset == 4

\* the largest page
MaxCount == 3

\* the pages listed in a row
MaxPages == 3

\* the calls of add() before the registry is listed
MaxAdds == 3

\* the Set and view pairs the application registers: the one of
\* STATIC_SETS, and for every setSpec a Set with a view and a Set of
\* another name with the view of a journal
Registrations ==
    {[metadata |-> [setSpec |-> STATIC_SETS[1].setSpec, setName |-> STATIC_SETS[1].setName],
      view |-> STATIC_SETS[1].view]}
    \cup {[metadata |-> [setSpec |-> <<"s", Digits[i + 1]>>, setName |-> n],
           view |-> IF n = <<"A">> THEN identityview
                    ELSE [cls |-> "View", kind |-> "journal", issn |-> JournalIssn(1)]] :
             i \in 2..MaxStatic, n \in {<<"A">>, <<"B">>}}
    \cup {[metadata |-> [setSpec |-> STATIC_SETS[1].setSpec, setName |-> <<"B">>],
           view |-> [cls |-> "View", kind |-> "journal", issn |-> JournalIssn(1)]]}

\* ArticleMetaSetsRegistry.__init__: no set is registered
RegistryInit ==
    /\ ds \in DataSources
    /\ sets = <<>>
    /\ today \in Todays
    /\ qstr = <<>>
    /\ response = NoResponse
    /\ NoTokenState
    /\ listed = NoListing
    /\ harvested = NoHarvest

\* get_setsregistry: registry.add(metadata, view), before the registry is
\* listed
Add ==
    /\ listed.pages = <<>>
    /\ Len(listed.adds) < MaxAdds
    /\ \E r \in Registrations :
          /\ sets' = SetsRegistry_add(sets, r.metadata, r.view)
          /\ listed' = [listed EXCEPT !.adds = Append(@, r)]
    /\ UNCHANGED <<ds, today, qstr, response, tokenVars, harvested>>

\* SetsResultPage.data: list(offset, count) for the first page, and for
\* the page after the last one listed
List ==
    /\ Len(listed.pages) < MaxPages
    /\ \E offset \in (IF listed.pages = <<>> THEN 0..MaxOffset ELSE {listed.offset}),
          count \in (IF listed.pages = <<>> THEN 1..MaxCount ELSE {listed.count}) :
          listed' =
              [adds |-> listed.adds,
               offset |-> offset,
               count |-> count,
               pages |-> Append(listed.pages,
                                SetsRegistry_list(offset + Len(listed.pages) * count, count)),
               calls |-> Append(listed.calls,
                                SetsRegistry_list_calls(offset + Len(listed.pages) * count,
                                                        count))]
    /\ UNCHANGED <<serverVars, tokenVars, harvested>>

RegistrySpec == RegistryInit /\ [][Add \/ List]_vars

\* ------------------------------------------------------------------------
\* What the properties say about a request, read off the query string
\* ------------------------------------------------------------------------

\* the server has answered the request in qstr
Answered == response.status # "none"

\* the keys of the query string
QsKeys == {qstr[i][1] : i \in 1..Len(qstr)}

\* the times a key occurs in the query string
QsCount(k) == Cardinality({i \in 1..Len(qstr) : qstr[i][1] = k})

\* the keys that carry a non-empty value: the arguments of the request
QsArgs == {qstr[i][1] : i \in {j \in 1..Len(qstr) : qstr[j][2] # <<>>}}

\* the value of a key that occurs once, Absent for a key that does not occur
QsValue(k) ==
    IF QsCount(k) = 1 THEN qstr[CHOOSE i \in 1..Len(qstr) : qstr[i][1] = k][2]
    ELSE Absent

\* every key is a legal one and none occurs twice
QsLegalUnrepeated ==
    /\ QsKeys \subseteq OAIPMH_LEGAL_ARGS
    /\ \A k \in QsKeys : QsCount(k) = 1

ErrorCodes ==
    {"badVerb", "badArgument", "idDoesNotExist", "cannotDisseminateFormat",
     "badResumptionToken", "noRecordsMatch"}

AnsweredError(code) == response.status = "error" /\ response.code = code

\* ------------------------------------------------------------------------
\* Properties of the dispatcher
\* ------------------------------------------------------------------------

\* C1: whatever the query string, handle_request returns a success document
\* or one of the six error documents; no other exception escapes it.
C1_SuccessOrOneOfSixErrors ==
    Answered =>
        \/ response.status = "success"
        \/ response.status = "error" /\ response.code \in ErrorCodes

\* C8: a query string with a key outside the seven legal ones, or with a key
\* that occurs more than once, is answered badArgument and no verb handler
\* runs, whatever the verb.
C8_IllegalOrRepeatedKeyIsBadArgument ==
    (Answered /\ ~QsLegalUnrepeated) =>
        AnsweredError("badArgument") /\ response.handler = "none"

\* C9: a request with legal, unrepeated arguments whose verb is missing or is
\* not one of the six verbs is answered badVerb and no handler runs.
C9_UnknownVerbIsBadVerb ==
    (Answered /\ QsLegalUnrepeated /\ QsValue("verb") \notin verbs) =>
        AnsweredError("badVerb") /\ response.handler = "none"

C9_Witness ==
    /\ Answered
    /\ QsLegalUnrepeated
    /\ QsValue("verb") = <<"NoSuchVerb">>
    /\ "identifier" \in QsArgs
    /\ AnsweredError("badVerb")

\* C10: for ListRecords and ListIdentifiers, resumptionToken together with
\* from, until, set or metadataPrefix is answered badArgument; neither
\* resumptionToken nor metadataPrefix is answered badArgument; and
\* {verb, resumptionToken} and {verb, metadataPrefix} with any of set, from
\* and until pass the precondition, so that the handler runs.
C10_ListRecordsArguments ==
    (Answered /\ QsLegalUnrepeated /\ QsValue("verb") \in {ListRecords, ListIdentifiers}) =>
        /\ ("resumptionToken" \in QsArgs
              /\ QsArgs \cap {"from", "until", "set", "metadataPrefix"} # {}) =>
                 AnsweredError("badArgument") /\ response.handler = "none"
        /\ ("resumptionToken" \notin QsArgs /\ "metadataPrefix" \notin QsArgs) =>
                 AnsweredError("badArgument") /\ response.handler = "none"
        /\ (\/ QsArgs = {"verb", "resumptionToken"}
            \/ \E extra \in SUBSET {"set", "from", "until"} :
                  QsArgs = {"verb", "metadataPrefix"} \cup extra) =>
                 response.handler = QsValue("verb")[1]

C10_Witness ==
    /\ Answered
    /\ QsLegalUnrepeated
    /\ QsValue("verb") = ListRecords
    /\ QsArgs = {"verb", "resumptionToken", "from"}
    /\ AnsweredError("badArgument")
    /\ response.handler = "none"

\* ------------------------------------------------------------------------
\* Properties of the resumption tokens a client sends
\* ------------------------------------------------------------------------

\* the request is the verb and a resumptionToken and nothing else: the one
\* shape of a request whose token reaches new_from_request
IsTokenRequest(verbset) ==
    /\ Answered
    /\ QsLegalUnrepeated
    /\ QsValue("verb") \in verbset
    /\ QsKeys = {"verb", "resumptionToken"}
    /\ QsValue("resumptionToken") # <<>>

\* the ':'-separated fields of the token of the request
QsTokenFields == Split(QsValue("resumptionToken"), ":")

\* the request with the set, from and until of its token made empty
QsWithBareToken ==
    LET f == QsTokenFields
    IN  << <<"verb", QsValue("verb")>>,
           <<"resumptionToken", Join(<<<<>>, <<>>, <<>>, f[4], f[5], f[6]>>, ":")>> >>

RejectsToken(resp) == resp.status = "error" /\ resp.code = "badResumptionToken"

\* the set, the from and the until of the token of the request are each
\* empty or filled with a set name, a date and a date
QsTokenSelectionIsEmptyOrFilled ==
    /\ QsTokenFields[1] = <<>> \/ IsWordOrDash(QsTokenFields[1])
    /\ QsTokenFields[2] = <<>> \/ IsDatePattern(QsTokenFields[2])
    /\ QsTokenFields[3] = <<>> \/ IsDatePattern(QsTokenFields[3])

\* C6: a ListRecords or ListIdentifiers request with a resumptionToken is
\* answered badResumptionToken unless the token has six ':'-separated fields,
\* an offset YYYY-MM-DD(N), a numeric count and a non-empty metadataPrefix;
\* and a token whose set, from and until are each empty or filled with a
\* set name or a date is rejected exactly when the token with empty set,
\* from and until is: which of the three are filled does not affect
\* acceptance.
C6_RecordsTokenSyntax ==
    IsTokenRequest({ListRecords, ListIdentifiers}) =>
        LET f == QsTokenFields
        IN  /\ ~RejectsToken(response) =>
                  /\ Len(f) = 6
                  /\ IsChunkedOffsetPattern(f[4])
                  /\ IsDigits(f[5])
                  /\ f[6] # <<>>
            /\ (Len(f) = 6 /\ QsTokenSelectionIsEmptyOrFilled) =>
                  (RejectsToken(response) <=> RejectsToken(handle_request(QsWithBareToken)))

C6_Witness ==
    /\ IsTokenRequest({ListIdentifiers})
    /\ Len(QsTokenFields) = 6
    /\ QsTokenFields[1] = OPENAIRE
    /\ QsTokenFields[2] = DateFrom
    /\ QsTokenFields[3] = DateEnd
    /\ response.status = "success"

\* the token of the request matches the pattern of its verb
QsTokenIsWellFormed ==
    token_patterns(TokenClass(QsValue("verb")), QsValue("verb"), QsValue("resumptionToken"))

\* C7: a well-formed resumptionToken whose count differs from the configured
\* page size is answered badResumptionToken, for the chunked tokens of
\* ListRecords and ListIdentifiers and for the plain tokens of ListSets; a
\* well-formed token whose count is the configured size is not.
C7_TokenCountIsPageSize ==
    (IsTokenRequest({ListRecords, ListIdentifiers, ListSets}) /\ QsTokenIsWellFormed) =>
        (RejectsToken(response) <=> IntOf(QsTokenFields[5]) # listslen)

C7_Witness ==
    /\ IsTokenRequest({ListSets})
    /\ QsTokenIsWellFormed
    /\ IntOf(QsTokenFields[5]) = listslen + 1
    /\ RejectsToken(response)

\* ------------------------------------------------------------------------
\* Properties of the token objects
\* ------------------------------------------------------------------------

\* the token that the i-th call of next() of the chain returned
ChainResult(i) == IF i < Len(chain) THEN chain[i + 1] ELSE tok

\* the calls i..j-1 of the chain were all fed full pages
FullPages(i, j) == \A k \in i..(j - 1) : fed[k] = query_count(chain[k])

\* the last day of the chunk of a chunked token, as a date of the calendar
ChunkEnd(self) ==
    LET start == parse_date(query_from(self))
        month == IF start.m + chunk_size - 1 > 12 THEN 12 ELSE start.m + chunk_size - 1
    IN  [y |-> start.y, m |-> month, d |-> lastdayofmonth(start.y, month)]

DateLeq(a, b) == TupleLeq(<<a.y, a.m, a.d>>, <<b.y, b.m, b.d>>)

\* no date range remains between the chunk of the token and its upper
\* bound; a plain token has no date range to walk
NoRangeRemains(self) ==
    \/ self.cls = "Plain"
    \/ /\ self.cls = "Chunked"
       /\ parse_date(self.until) # ValueError
       /\ DateLeq(parse_date(self.until), ChunkEnd(self))

\* C3: next() fed a full page returns a token with a strictly larger offset
\* (in the same chunk, for a chunked token), no token of a chain of full
\* pages equals an earlier one, and next() fed a short page when no date
\* range remains before the upper bound returns no token.
C3_MonotonicPagination ==
    /\ \A i \in 1..Len(chain) :
          /\ fed[i] = query_count(chain[i]) =>
                /\ IsToken(ChainResult(i))
                /\ query_from(ChainResult(i)) = query_from(chain[i])
                /\ query_offset(ChainResult(i)) > query_offset(chain[i])
          /\ (fed[i] < query_count(chain[i]) /\ NoRangeRemains(chain[i])) =>
                ChainResult(i) = NoToken
    /\ \A i \in 1..Len(chain) : \A j \in (i + 1)..(Len(chain) + 1) :
          FullPages(i, j) => ~TokenEq(chain[i], ChainResult(j - 1))

C3_Witness ==
    /\ Len(chain) = MaxChain
    /\ chain[1].cls = "Chunked"
    /\ FullPages(1, MaxChain)
    /\ fed[MaxChain] < query_count(chain[MaxChain])
    /\ NoRangeRemains(chain[MaxChain])
    /\ tok = NoToken

\* a field of a token as a string, None as the empty string
AsString(value) == IF value = None THEN <<>> ELSE value

\* C4: decode(encode(t)) equals t field by field, every field rendered as a
\* string and None as the empty string, for the tokens of both classes.
C4_RoundTrip ==
    IsToken(decoded.of) =>
        /\ decoded.token.cls = decoded.of.cls
        /\ \A i \in 1..Len(attrs) :
              AsString(decoded.token[attrs[i]]) = AsString(decoded.of[attrs[i]])

\* the number before the closing parenthesis of a chunked offset and the
\* date before the opening one
InChunkSkip(self) ==
    IntOf(Slice(self.offset, Index(self.offset, "(") + 1, Len(self.offset) - 1))

ChunkStart(self) == Slice(self.offset, 0, Index(self.offset, "("))

\* C5: a token that new_from_request built from a request without a
\* resumptionToken is a first page, for both classes and every set, from
\* and until; a chunked token with a non-zero skip, or with a chunk start
\* other than its from, is not a first page.
C5_FirstPageDetection ==
    /\ (fresh /\ IsToken(tok)) => is_first_page(tok)
    /\ (IsToken(tok) /\ tok.cls = "Chunked"
          /\ (InChunkSkip(tok) # 0 \/ ChunkStart(tok) # tok.from_)) =>
             ~is_first_page(tok)

C5_Witness ==
    /\ fresh
    /\ IsToken(tok)
    /\ tok.cls = "Chunked"
    /\ tok.set = OPENAIRE
    /\ tok.from_ = DateMid
    /\ tok.until = DateEnd
    /\ is_first_page(tok)

\* ------------------------------------------------------------------------
\* Properties of a harvest
\* ------------------------------------------------------------------------

\* a page with fewer items than the page size and no resumptionToken
FinalPage ==
    /\ response.status = "success"
    /\ Len(response.resources) < listslen
    /\ response.resumptionToken = <<>>

\* the response is a page of the harvest or answers a returned token, and
\* it carries no token to go on with: the harvest is over
HarvestOver ==
    /\ Answered
    /\ response.status = "success" \/ "resumptionToken" \in QsKeys
    /\ ~(response.status = "success" /\ response.resumptionToken # <<>>)

\* C2: a harvest that starts with a page of ListRecords, ListIdentifiers or
\* ListSets and goes on with the returned resumption tokens ends with a page
\* of fewer than count items and an empty resumptionToken.
C2_HarvestEnds == HarvestOver => FinalPage

\* ------------------------------------------------------------------------
\* Properties of the argument preconditions of the verbs
\* ------------------------------------------------------------------------

\* a request with legal, unrepeated keys and this verb has been answered
AnsweredVerb(verb) == Answered /\ QsLegalUnrepeated /\ QsValue("verb") = verb

\* the handler of the verb did not run and the answer is badArgument
RefusedArguments == AnsweredError("badArgument") /\ response.handler = "none"

\* the argument sets of ListRecords and ListIdentifiers
RecordsArgumentSets ==
    {{"verb", "resumptionToken"}}
    \cup {{"verb", "metadataPrefix"} \cup extra : extra \in SUBSET {"set", "from", "until"}}

\* C11: ListRecords and ListIdentifiers accept exactly the argument sets
\* {verb, resumptionToken} and {verb, metadataPrefix} with any of set, from
\* and until; every other set, a set with identifier among them, is answered
\* badArgument.
C11_RecordsArgumentsAreExact ==
    \A verb \in {ListRecords, ListIdentifiers} :
        AnsweredVerb(verb) =>
            /\ QsArgs \in RecordsArgumentSets => response.handler = verb[1]
            /\ QsArgs \notin RecordsArgumentSets => RefusedArguments

\* C12: Identify runs only when the non-empty arguments are exactly {verb}
\* and GetRecord only when they are exactly {verb, metadataPrefix,
\* identifier}; with any other set of legal arguments the answer is
\* badArgument and the handler body does not run.
C12_IdentifyAndGetRecordArguments ==
    /\ response.handler = "Identify" => QsArgs = {"verb"}
    /\ response.handler = "GetRecord" => QsArgs = {"verb", "metadataPrefix", "identifier"}
    /\ AnsweredVerb(Identify) =>
          IF QsArgs = {"verb"} THEN response.handler = "Identify" ELSE RefusedArguments
    /\ AnsweredVerb(GetRecord) =>
          IF QsArgs = {"verb", "metadataPrefix", "identifier"}
          THEN response.handler = "GetRecord"
          ELSE RefusedArguments

C12_Witness ==
    /\ AnsweredVerb(GetRecord)
    /\ QsArgs = {"verb", "metadataPrefix", "identifier", "set"}
    /\ RefusedArguments

\* C13: a ListSets request that carries from, until or set is answered
\* badArgument, with or without a resumptionToken.
C13_ListSetsTakesNoSelection ==
    (AnsweredVerb(ListSets) /\ QsArgs \cap {"from", "until", "set"} # {}) =>
        AnsweredError("badArgument")

\* C14: ListMetadataFormats passes its precondition exactly when its
\* arguments are {verb} or {verb, identifier}; with from, until, set or
\* metadataPrefix the answer is badArgument.
C14_ListMetadataFormatsArguments ==
    AnsweredVerb(ListMetadataFormats) =>
        /\ response.handler = "ListMetadataFormats" <=>
              QsArgs \in {{"verb"}, {"verb", "identifier"}}
        /\ QsArgs \cap {"from", "until", "set", "metadataPrefix"} # {} =>
              AnsweredError("badArgument")

\* ------------------------------------------------------------------------
\* Properties of GetRecord and ListMetadataFormats
\* ------------------------------------------------------------------------

\* the data source holds a record of this identifier
InDataSource(ridentifier) ==
    \E i \in 1..Len(ds.records) : ds.records[i].ridentifier = ridentifier

\* a GetRecord request with exactly verb, metadataPrefix and identifier
GetRecordRequest ==
    /\ AnsweredVerb(GetRecord)
    /\ QsArgs = {"verb", "metadataPrefix", "identifier"}

\* C15: a GetRecord request whose metadataPrefix is not a registered format
\* is answered cannotDisseminateFormat, whether the data source holds the
\* identifier or not: the format is looked at before the data source.
C15_UnregisteredFormatComesFirst ==
    (GetRecordRequest /\ QsValue("metadataPrefix") \notin formats) =>
        AnsweredError("cannotDisseminateFormat")

C15_Witness ==
    /\ GetRecordRequest
    /\ QsValue("metadataPrefix") \notin formats
    /\ ~InDataSource(QsValue("identifier"))
    /\ AnsweredError("cannotDisseminateFormat")

\* C16: a GetRecord request with a registered metadataPrefix is answered
\* with the one record of that identifier when the data source holds it,
\* and with idDoesNotExist when the data source does not.
C16_GetRecordFetchesTheIdentifier ==
    (GetRecordRequest /\ QsValue("metadataPrefix") \in formats) =>
        IF InDataSource(QsValue("identifier"))
        THEN /\ response.status = "success"
             /\ response.handler = "GetRecord"
             /\ Len(response.resources) = 1
             /\ response.resources[1].ridentifier = QsValue("identifier")
        ELSE AnsweredError("idDoesNotExist")

C16_Witness ==
    /\ GetRecordRequest
    /\ QsValue("metadataPrefix") \in formats
    /\ ~InDataSource(QsValue("identifier"))
    /\ AnsweredError("idDoesNotExist")

\* a ListMetadataFormats request with verb alone or verb and identifier
ListMetadataFormatsRequest ==
    /\ AnsweredVerb(ListMetadataFormats)
    /\ QsArgs \in {{"verb"}, {"verb", "identifier"}}

\* the list of every registered format
EveryFormat == [i \in 1..Len(METADATA_FORMATS) |-> [metadataPrefix |-> METADATA_FORMATS[i]]]

\* C17: a ListMetadataFormats request with an identifier the data source
\* does not hold is answered idDoesNotExist; without identifier, or with
\* one the data source holds, the answer lists every registered format,
\* whatever the data source holds.
C17_FormatsOfAnIdentifier ==
    ListMetadataFormatsRequest =>
        IF "identifier" \in QsArgs /\ ~InDataSource(QsValue("identifier"))
        THEN AnsweredError("idDoesNotExist")
        ELSE /\ response.status = "success"
             /\ response.handler = "ListMetadataFormats"
             /\ response.resources = EveryFormat

C17_Witness ==
    /\ ListMetadataFormatsRequest
    /\ "identifier" \in QsArgs
    /\ ~InDataSource(QsValue("identifier"))
    /\ AnsweredError("idDoesNotExist")

\* ------------------------------------------------------------------------
\* Properties of the translation of exceptions
\* ------------------------------------------------------------------------

\* what the handler of the verb returns or raises for this request
HandlerOutcomeOf(oairequest) ==
    CASE oairequest.verb = Identify -> identify(oairequest).out
      [] oairequest.verb = GetRecord -> get_record(oairequest).out
      [] oairequest.verb = ListRecords -> list_records(oairequest).out
      [] oairequest.verb = ListIdentifiers -> list_identifiers(oairequest).out
      [] oairequest.verb = ListMetadataFormats -> list_metadata_formats(oairequest).out
      [] oairequest.verb = ListSets -> list_sets(oairequest).out

\* what the handler of the verb of the request in qstr returns or raises
HandlerOutcome == HandlerOutcomeOf(oairequest_from_querystring(parse_qs(qstr)))

\* the request in qstr reaches the handler of a verb
Dispatched == Answered /\ QsLegalUnrepeated /\ QsValue("verb") \in verbs

\* the protocol errors a handler raises, with the code of their document
ProtocolErrors ==
    {<<BadArgumentError, "badArgument">>,
     <<IdDoesNotExistError, "idDoesNotExist">>,
     <<BadResumptionTokenError, "badResumptionToken">>,
     <<NoRecordsMatchError, "noRecordsMatch">>,
     <<CannotDisseminateFormatError, "cannotDisseminateFormat">>}

\* C18: when the handler of the verb raises BadArgumentError,
\* IdDoesNotExistError, BadResumptionTokenError, NoRecordsMatchError or
\* CannotDisseminateFormatError, the answer is the error document of that
\* exception and of no other, never a success document.
C18_ExceptionsBecomeTheirDocument ==
    Dispatched =>
        \A e \in ProtocolErrors :
            HandlerOutcome = e[1] =>
                /\ AnsweredError(e[2])
                /\ response.status # "success"

C18_Witness ==
    /\ Dispatched
    /\ HandlerOutcome = NoRecordsMatchError
    /\ AnsweredError("noRecordsMatch")

\* ------------------------------------------------------------------------
\* Properties of the pages of records
\* ------------------------------------------------------------------------

\* a ListRecords or ListIdentifiers request that reaches its handler
RecordsRequest ==
    /\ Dispatched
    /\ QsValue("verb") \in {ListRecords, ListIdentifiers}

\* the request carries a resumption token of six fields
QsHasToken ==
    /\ "resumptionToken" \in QsArgs
    /\ Len(QsTokenFields) = 6

\* the from and the until of the request: the second and third field of
\* its token, or else its own arguments; empty when it has none
QsFrom ==
    IF QsHasToken THEN QsTokenFields[2]
    ELSE IF "from" \in QsArgs THEN QsValue("from") ELSE <<>>

QsUntil ==
    IF QsHasToken THEN QsTokenFields[3]
    ELSE IF "until" \in QsArgs THEN QsValue("until") ELSE <<>>

\* a date of the request is not of the granularity, or its from is later
\* than its until, the current date standing for an until it does not
\* carry
QsBadDates ==
    \/ QsFrom # <<>> /\ ~IsDatePattern(QsFrom)
    \/ QsUntil # <<>> /\ ~IsDatePattern(QsUntil)
    \/ QsFrom # <<>> /\ StrLess(IF QsUntil # <<>> THEN QsUntil ELSE today, QsFrom)

\* C19: a ListRecords or ListIdentifiers request whose from or until, of
\* the request or of its resumption token, is not a date of the
\* granularity, or whose from is later than its until (the current date
\* when it carries none), is answered badArgument.
C19_BadDatesAreBadArgument ==
    (RecordsRequest /\ QsBadDates) => AnsweredError("badArgument")

\* the request as handle_request parses it from qstr
QsRequest == oairequest_from_querystring(parse_qs(qstr))

\* the handler of ListRecords or of ListIdentifiers ran for the request
RecordsHandlerRan ==
    /\ Answered
    /\ QsRequest.verb \in {ListRecords, ListIdentifiers}
    /\ response.handler = QsRequest.verb[1]

\* the token of the page the request asks for, or the exception of
\* new_from_request
PageToken == Records_current_resumption_token(QsRequest)

\* the handler of the request queried the data source for the page of the
\* token: the token, its format, its dates and its set were accepted
QueriedFor(token) ==
    /\ RecordsHandlerRan
    /\ ~IsError(token)
    /\ QsRequest.verb = ListRecords => ~IsError(select_format(token))
    /\ ensure_datestamps_are_valid(token)
    /\ ~IsError(get_query_view(token))

\* the answer is a page without records that leads to the page after the
\* one of the token, when there is one
EmptyPageAfter(token) ==
    /\ response.status = "success"
    /\ response.resources = <<>>
    /\ response.resumptionToken =
          IF next(token, <<>>) = NoToken THEN <<>> ELSE encode(next(token, <<>>))

\* C20: noRecordsMatch is the answer to a first page only: when the token of
\* a ListRecords or ListIdentifiers request is not a first page and the
\* query of the data source returns nothing, the answer is a success page
\* with no records and with the next token, if any.
C20_NoRecordsMatchOnFirstPageOnly ==
    /\ AnsweredError("noRecordsMatch") =>
          /\ RecordsHandlerRan
          /\ ~IsError(PageToken)
          /\ is_first_page(PageToken)
    /\ ( /\ QueriedFor(PageToken)
          /\ ~is_first_page(PageToken)
          /\ query_resources_by_token(PageToken).resources = <<>> ) =>
          EmptyPageAfter(PageToken)

C20_Witness ==
    /\ QueriedFor(PageToken)
    /\ ~is_first_page(PageToken)
    /\ query_resources_by_token(PageToken).resources = <<>>
    /\ PageToken.from_ # <<>>
    /\ response.resumptionToken # <<>>
    /\ EmptyPageAfter(PageToken)

\* a first ListRecords or ListIdentifiers request whose format, dates and
\* set are accepted: its handler queries the data source
FirstRecordsRequest ==
    /\ QueriedFor(PageToken)
    /\ ~Truthy(QsRequest.resumptionToken)
    /\ QsRequest.metadataPrefix \in formats

\* the records of the data source that the set, the from and the until of
\* the token select over the whole range
SelectedBy(token) ==
    ds_list(0, Len(ds.records), get_query_view(token), token.from_, token.until)

\* C21: a first ListRecords or ListIdentifiers request with valid arguments
\* is answered noRecordsMatch exactly when its from, until and set select
\* no record of the data source over the whole range from..until.
C21_NoRecordsMatchIffNothingSelected ==
    FirstRecordsRequest =>
        (AnsweredError("noRecordsMatch") <=> SelectedBy(PageToken) = <<>>)

\* the set of the request: the first field of its token, or else its own
\* argument; empty when it has none
QsSet ==
    IF QsHasToken THEN QsTokenFields[1]
    ELSE IF "set" \in QsArgs THEN QsValue("set") ELSE <<>>

\* C22: a ListRecords or ListIdentifiers request whose set, of the request
\* or of its resumption token, names neither a static set of the registry
\* nor a journal of the data source is answered badArgument.
C22_UnknownSetIsBadArgument ==
    (RecordsRequest /\ QsSet # <<>> /\ get_view(QsSet) = NoView) =>
        AnsweredError("badArgument")

\* the record of the data source with this identifier
DsRecord(ridentifier) ==
    ds.records[CHOOSE i \in 1..Len(ds.records) : ds.records[i].ridentifier = ridentifier]

\* C23: the page of a ListRecords request that carries only a
\* resumptionToken is made with the format registered under the
\* metadataPrefix of the token: the formatter is that of the prefix and
\* every record is the record of the data source after the augmenter of
\* the prefix.
C23_TokenFormatIsApplied ==
    (IsTokenRequest({ListRecords}) /\ response.status = "success") =>
        /\ QsTokenFields[6] \in formats
        /\ response.format = QsTokenFields[6]
        /\ \A i \in 1..Len(response.resources) :
              response.resources[i] =
                  augmenter(QsTokenFields[6], DsRecord(response.resources[i].ridentifier))

C23_Witness ==
    /\ IsTokenRequest({ListRecords})
    /\ response.status = "success"
    /\ QsTokenFields[6] = OAI_DC_OPENAIRE
    /\ Len(response.resources) > 0
    /\ response.resources[1].rights # DsRecord(response.resources[1].ridentifier).rights

\* ------------------------------------------------------------------------
\* Properties of the chunks of a chunked token
\* ------------------------------------------------------------------------

\* the i-th call of next() of the chain was on a chunked token whose upper
\* bound is a date
ChunkedCall(i) ==
    /\ chain[i].cls = "Chunked"
    /\ parse_date(chain[i].until) # ValueError

DateLess(a, b) == DateLeq(a, b) /\ a # b

\* date range remains between the end of the chunk the token queries and
\* its upper bound, in the order of the calendar
RangeRemains(self) == DateLess(parse_date(query_until(self)), parse_date(self.until))

\* the token with another offset
WithOffset(self, start, skip) ==
    [self EXCEPT !.offset = start \o <<"(">> \o StrOf(skip) \o <<")">>]

\* C24: next() of a chunked token fed a page of count items keeps the chunk
\* start and adds count to the skip; fed a shorter page while date range
\* remains before the upper bound, it starts at the day after the end of the
\* chunk with skip 0; otherwise it returns no token.
C24_ChunkedNext ==
    \A i \in 1..Len(chain) :
        ChunkedCall(i) =>
            ChainResult(i) =
                IF fed[i] = query_count(chain[i])
                THEN WithOffset(chain[i], ChunkStart(chain[i]),
                                InChunkSkip(chain[i]) + IntOf(chain[i].count))
                ELSE IF RangeRemains(chain[i])
                THEN WithOffset(chain[i],
                                strftime(NextDay(parse_date(query_until(chain[i])))), 0)
                ELSE NoToken

C24_Witness ==
    /\ Len(chain) = MaxChain
    /\ \A i \in 1..Len(chain) : ChunkedCall(i)
    /\ fed[1] = query_count(chain[1])
    /\ fed[2] < query_count(chain[2])
    /\ RangeRemains(chain[2])
    /\ fed[3] < query_count(chain[3])
    /\ ~RangeRemains(chain[3])
    /\ tok = NoToken

\* a chunked token whose upper bound is a date and whose chunk starts on a
\* date
DatedChunk(self) ==
    /\ IsToken(self)
    /\ self.cls = "Chunked"
    /\ parse_date(self.until) # ValueError
    /\ parse_date(query_from(self)) # ValueError

\* C26: query_until() of a chunked token is never later, in the order of
\* the calendar, than the upper bound of the token, also when the chunk of
\* chunk_size months would end later.
C26_QueryUntilIsClipped ==
    DatedChunk(tok) =>
        /\ parse_date(query_until(tok)) # ValueError
        /\ DateLeq(parse_date(query_until(tok)), parse_date(tok.until))

C26_Witness ==
    /\ DatedChunk(tok)
    /\ DateLess(parse_date(tok.until), ChunkEnd(tok))
    /\ Len(chain) > 0
    /\ query_until(tok) = tok.until

\* the earlier of two dates of the calendar
EarlierOf(a, b) == IF DateLeq(a, b) THEN a ELSE b

\* C27: query_until() of a chunked token is the earlier, in the order of
\* the calendar, of the upper bound and the last day of the month
\* chunk_size - 1 months after the month of the chunk start (December at
\* most), so that a query spans at most chunk_size months.
C27_QueryUntilIsChunkEnd ==
    (DatedChunk(tok) /\ ensure_datestamps_are_valid(tok)) =>
        parse_date(query_until(tok)) = EarlierOf(parse_date(tok.until), ChunkEnd(tok))

\* ------------------------------------------------------------------------
\* Properties of the plain token and of the pages of sets
\* ------------------------------------------------------------------------

\* the i-th call of next() of the chain was on a plain token and was fed a
\* full page
PlainFullPage(i) ==
    /\ chain[i].cls = "Plain"
    /\ fed[i] = query_count(chain[i])

\* the plain token moved on by this many items
MovedOn(self, items) == [self EXCEPT !.offset = StrOf(IntOf(self.offset) + items)]

AllSets ==
    [i \in 1..Len(sets) |-> [setSpec |-> sets[i].setSpec, setName |-> sets[i].setName]]
        \o [i \in 1..Len(ds.journals) |->
               [setSpec |-> ds.journals[i], setName |-> Journal_title(ds.journals[i])]]

\* the offset of the k-th page listed
PageOffset(k) == listed.offset + (k - 1) * listed.count

\* how many of the items from offset on a page of count items takes, of a
\* list of this size
Taken(size, offset, count) ==
    IF size - offset <= 0 THEN 0
    ELSE IF size - offset < count THEN size - offset
    ELSE count

\* C28: list(offset, count) returns the items offset .. offset+count-1, as
\* many as exist, of the static sets followed by the sets of the journals;
\* consecutive pages neither skip nor repeat a set.
C28_ListIsASliceOfAllSets ==
    \A k \in 1..Len(listed.pages) :
        listed.pages[k] =
            [i \in 1..Taken(Len(AllSets), PageOffset(k), listed.count) |->
                AllSets[PageOffset(k) + i]]

C28_Witness ==
    /\ Len(listed.pages) >= 2
    /\ listed.offset = 0
    /\ sets # <<>>
    /\ Len(sets) < listed.count
    /\ Len(listed.pages[1]) = listed.count
    /\ Len(listed.pages[2]) = listed.count
    /\ listed.pages[1] \o listed.pages[2] = SubSeq(AllSets, 1, 2 * listed.count)

\* C29: list() asks the data source for no more than the part of the page
\* that the static sets leave open: not at all when the static sets fill
\* the page, and otherwise once, from max(0, offset - number of static sets)
\* on, for count less the static sets of the page.
C29_JournalsFillTheRestOfThePage ==
    \A k \in 1..Len(listed.calls) :
        listed.calls[k] =
            IF Taken(Len(sets), PageOffset(k), listed.count) = listed.count THEN <<>>
            ELSE << <<IF PageOffset(k) > Len(sets) THEN PageOffset(k) - Len(sets) ELSE 0,
                      listed.count - Taken(Len(sets), PageOffset(k), listed.count)>> >>

C29_Witness ==
    /\ Len(listed.calls) >= 2
    /\ listed.calls[1] = <<>>
    /\ Len(listed.calls[2]) = 1
    /\ listed.calls[2][1][2] < listed.count

\* C30: translate_virtual_offset(size, offset) is max(0, offset - size): 0
\* whenever offset <= size, as for (150, 101) and (10, 0), in every call of
\* list() and for every size and offset up to MaxOffset.
C30_VirtualOffset ==
    /\ \A k \in 1..Len(listed.calls) :
          listed.calls[k] # <<>> =>
              /\ PageOffset(k) <= Len(sets) => listed.calls[k][1][1] = 0
              /\ PageOffset(k) > Len(sets) =>
                    listed.calls[k][1][1] = PageOffset(k) - Len(sets)
    /\ \A size \in 0..MaxOffset : \A offset \in 0..MaxOffset :
          translate_virtual_offset(size, offset) =
              IF offset <= size THEN 0 ELSE offset - size
    /\ translate_virtual_offset(150, 101) = 0
    /\ translate_virtual_offset(10, 0) = 0

C30_Witness ==
    \E k \in 1..Len(listed.calls) :
        /\ listed.calls[k] # <<>>
        /\ Len(sets) > 0
        /\ PageOffset(k) > 0
        /\ PageOffset(k) <= Len(sets)
        /\ listed.calls[k][1][1] = 0

\* the latest call of add() for a setSpec
LatestRegistration(setspec) ==
    listed.adds[CHOOSE a \in 1..Len(listed.adds) :
                   /\ listed.adds[a].metadata.setSpec = setspec
                   /\ \A b \in (a + 1)..Len(listed.adds) :
                         listed.adds[b].metadata.setSpec # setspec]

\* C31: registering a static set under a setSpec that is registered
\* replaces the earlier entry: after any calls of add() the registry holds
\* every registered setSpec once, the pages of list() show no setSpec
\* twice, and list() and get_view() give the Set and the view of the latest
\* registration of a setSpec.
C31_LastRegistrationWins ==
    /\ \A i \in 1..Len(sets) : \A j \in 1..Len(sets) :
          sets[i].setSpec = sets[j].setSpec => i = j
    /\ \A k \in 1..Len(listed.pages) : \A m \in 1..Len(listed.pages) :
          \A i \in 1..Len(listed.pages[k]) : \A j \in 1..Len(listed.pages[m]) :
              listed.pages[k][i].setSpec = listed.pages[m][j].setSpec => k = m /\ i = j
    /\ \A a \in 1..Len(listed.adds) :
          /\ \E i \in 1..Len(sets) : sets[i].setSpec = listed.adds[a].metadata.setSpec
          /\ get_view(listed.adds[a].metadata.setSpec)
                 = LatestRegistration(listed.adds[a].metadata.setSpec).view
          /\ \A k \in 1..Len(listed.pages) : \A i \in 1..Len(listed.pages[k]) :
                listed.pages[k][i].setSpec = listed.adds[a].metadata.setSpec =>
                    listed.pages[k][i]
                        = LatestRegistration(listed.adds[a].metadata.setSpec).metadata

C31_Witness ==
    /\ Len(listed.adds) = MaxAdds
    /\ listed.adds[1].metadata.setSpec = listed.adds[MaxAdds].metadata.setSpec
    /\ listed.adds[1].metadata.setName # listed.adds[MaxAdds].metadata.setName
    /\ listed.adds[1].view # listed.adds[MaxAdds].view
    /\ Len(sets) = 2
    /\ listed.offset = 0
    /\ Len(listed.pages) = 1
    /\ listed.pages[1][1] = listed.adds[MaxAdds].metadata
    /\ get_view(listed.adds[1].metadata.setSpec) = listed.adds[MaxAdds].view

\* the token of the request names a set, a from or an until
QsTokenHasSelection ==
    \E i \in 1..3 : i <= Len(QsTokenFields) /\ QsTokenFields[i] # <<>>

\* C32: a ListSets request whose resumptionToken has a non-empty set, from
\* or until field is answered badResumptionToken.
C32_ListSetsTokenHasNoSelection ==
    (IsTokenRequest({ListSets}) /\ QsTokenHasSelection) => RejectsToken(response)

\* a date argument as a badVerb or badArgument document echoes it: left
\* out when it is there and is not of the granularity of the repository
EchoedDate(v) ==
    IF v # None /\ v # <<>> /\ ~IsDatePattern(v) THEN None ELSE v

\* C33: a badVerb or badArgument document echoes the request without its
\* verb when the verb is none of the six, and without the from and the
\* until that are not of the granularity of the repository, the other
\* arguments as received; a success document and the documents of the
\* other four errors echo the request as received.
C33_EchoedRequest ==
    (Answered /\ response.status \in {"success", "error"}) =>
        IF response.status = "error" /\ response.code \in {"badVerb", "badArgument"}
        THEN response.request =
                 [QsRequest EXCEPT
                     !.verb = IF QsRequest.verb \in
                                     {Identify, ListSets, ListRecords,
                                      ListMetadataFormats, ListIdentifiers, GetRecord}
                              THEN QsRequest.verb ELSE None,
                     !.from_ = EchoedDate(QsRequest.from_),
                     !.until = EchoedDate(QsRequest.until)]
        ELSE response.request = QsRequest

C33_Witness ==
    /\ AnsweredError("badArgument")
    /\ QsRequest.verb \in {ListRecords, ListIdentifiers}
    /\ QsRequest.from_ # None
    /\ IsDatePattern(QsRequest.from_)
    /\ QsRequest.until # None
    /\ ~IsDatePattern(QsRequest.until)
    /\ response.request.verb = QsRequest.verb
    /\ response.request.from_ = QsRequest.from_
    /\ response.request.until = None

\* the dates of the day of two servers, and one more
Clocks == Todays \cup {strftime(earliest_datestamp)}

\* what the handler of a listing verb returns for the request when the
\* server runs on the day default_until
PageOn(oairequest, default_until) ==
    CASE oairequest.verb = ListRecords ->
            list_records_page(
                Chunked_new_from_request(oairequest, listslen,
                                         strftime(earliest_datestamp), default_until))
      [] oairequest.verb = ListIdentifiers ->
            list_identifiers_page(
                Chunked_new_from_request(oairequest, listslen,
                                         strftime(earliest_datestamp), default_until))
      [] oairequest.verb = ListSets ->
            list_sets_page(Plain_new_from_request(oairequest, listslen))

Augmented(i) ==
    /\ response'.status = "success"
    /\ response'.handler \in {"GetRecord", "ListRecords"}
    /\ \E j \in 1..Len(response'.resources) :
          response'.resources[j].ridentifier = ds.records[i].ridentifier

\* C35: the protocol is read-only: no request changes the data source or
\* the static sets (the formats and the metadata of the repository are
\* fixed at construction), and the augmenter leaves the Resource it is
\* given as it was.
C35_ProtocolIsReadOnly ==
    [][/\ ds' = ds
       /\ sets' = sets
       /\ \A i \in 1..Len(ds.records) :
             Augmented(i) =>
                 augmenter_argument(response'.format, ds.records[i]) = ds.records[i]]_vars

\* the step sends the token of the last answer back, with the verb of that
\* answer and nothing else
SendsTokenBack ==
    /\ response.status = "success"
    /\ response.resumptionToken # <<>>
    /\ qstr' = << <<"verb", response.request.verb>>,
                  <<"resumptionToken", response.resumptionToken>> >>

\* C36: the server accepts every resumption token it issues: sent back with
\* the verb as the only other argument, the token passes the check of the
\* arguments and new_from_request, which does not raise
\* BadResumptionTokenError.
C36_IssuedTokensAreAccepted ==
    [][SendsTokenBack =>
          /\ response'.handler = response.request.verb[1]
          /\ ~RejectsToken(response')]_vars

\* the first request of the harvester
HarvestFirst == oairequest_from_querystring(parse_qs(harvested.first))

\* the harvester began with a ListRecords request without a token, was
\* answered with a page, and has now received the page without a token
HarvestedAllRecords ==
    /\ harvested.first # <<>>
    /\ HarvestFirst.verb = ListRecords
    /\ HarvestFirst.resumptionToken = None
    /\ response.status = "success"
    /\ response.resumptionToken = <<>>

\* how often the harvester has collected the record of an identifier
TimesHarvested(rid) ==
    Cardinality({i \in 1..Len(harvested.resources) :
                    harvested.resources[i].ridentifier = rid})

\* the records of the data source that the set, the from and the until of
\* the first request of the harvester select, with the earliest datestamp
\* and the date of the day for a from and an until it does not give
HarvestSelection == SelectedBy(Records_current_resumption_token(HarvestFirst))

\* C37: over an unchanging data source, the pages of a harvest that begins
\* with a successful ListRecords request and follows every token up to the
\* page without one hold every record that the set, from and until of the
\* request select exactly once, and no other record.
C37_HarvestIsComplete ==
    HarvestedAllRecords =>
        /\ \A i \in 1..Len(HarvestSelection) :
              TimesHarvested(HarvestSelection[i].ridentifier) = 1
        /\ \A i \in 1..Len(harvested.resources) :
              \E j \in 1..Len(HarvestSelection) :
                  HarvestSelection[j].ridentifier = harvested.resources[i].ridentifier

C37_Witness ==
    /\ HarvestedAllRecords
    /\ "resumptionToken" \in QsKeys
    /\ Len(harvested.resources) > chunk_size
    /\ Len(harvested.resources) > listslen
    /\ Len(HarvestSelection) = Len(harvested.resources)

\* the chain of next() began with the first page of a chunked token whose
\* from and until are dates
ChainFromFirstPage ==
    /\ Len(chain) > 0
    /\ chain[1].cls = "Chunked"
    /\ is_first_page(chain[1])
    /\ parse_date(chain[1].from_) # ValueError
    /\ parse_date(chain[1].until) # ValueError

\* C38: next() changes the offset only: the token it returns has the set,
\* from, until, count and metadataPrefix of the token it was called on; so
\* the from and the until of the first page are those of every later token
\* and bound, in the order of the calendar, the dates every later page is
\* queried with.
C38_NextChangesOnlyTheOffset ==
    \A i \in 1..Len(chain) :
        IsToken(ChainResult(i)) =>
            /\ [ChainResult(i) EXCEPT !.offset = chain[i].offset] = chain[i]
            /\ ChainFromFirstPage =>
                  /\ ChainResult(i).from_ = chain[1].from_
                  /\ ChainResult(i).until = chain[1].until
                  /\ DateLeq(parse_date(chain[1].from_),
                             parse_date(query_from(ChainResult(i))))
                  /\ DateLeq(parse_date(query_until(ChainResult(i))),
                             parse_date(chain[1].until))

C38_Witness ==
    /\ ChainFromFirstPage
    /\ Len(chain) = MaxChain
    /\ IsToken(tok)
    /\ tok.offset # chain[1].offset
    /\ query_from(tok) # query_from(chain[1])
    /\ query_offset(tok) > 0
    /\ tok.from_ = chain[1].from_
    /\ Truthy(tok.set)

\* the query string with ListIdentifiers for its verb ListRecords
AsListIdentifiers ==
    [i \in 1..Len(qstr) |->
        IF qstr[i] = <<"verb", ListRecords>> THEN <<"verb", ListIdentifiers>> ELSE qstr[i]]

\* the identifiers of the resources of a document
Identifiers(resp) == [i \in 1..Len(resp.resources) |-> resp.resources[i].ridentifier]

\* two answers that are the same error, or pages of the same identifiers
\* with the same next token
SamePage(a, b) ==
    \/ a.status = "error" /\ b.status = "error" /\ a.code = b.code
    \/ /\ a.status = "success"
       /\ b.status = "success"
       /\ Identifiers(a) = Identifiers(b)
       /\ a.resumptionToken = b.resumptionToken

\* C39: ListIdentifiers is an abbreviated ListRecords: for the arguments, or
\* the token, of any ListRecords request the two verbs return the same
\* error code, or pages with the same identifiers in the same order and the
\* same next resumptionToken.
C39_ListIdentifiersIsListRecords ==
    (Answered /\ QsRequest.verb = ListRecords) =>
        SamePage(response, handle_request(AsListIdentifiers))

====
